---- MODULE Spec2Model ----
(***************************************************************************)
(* The user-configuration converter of the provider                        *)
(* (internal/sdkprovider/userconfig/converters/converters.go):             *)
(* Expand turns the declared configuration and the resource data into the  *)
(* DTO sent to the API, Flatten turns a DTO received from the API into the *)
(* local tree.  Both are pure tree walks; the state machine draws their    *)
(* inputs in Init and applies them.                                        *)
(*                                                                         *)
(* Go values are records tagged with their dynamic type k:                 *)
(*   nil | string | bool | int | float64 | jnum (json.Number, its text)    *)
(*   | slice ([]any) | map (map[string]any) | set (a schema.Set)           *)
(* the value is under s (a text), b, n, l (elements), m (entries) or e     *)
(* (the elements of a set); a float64 is held as a number of halves, a     *)
(* json.Number as its numeral.  cty values (the raw configuration) are     *)
(* tagged the same way: null | string | number | bool | list | object.     *)
(* Paths are sequences of strings relative to "<kind>_user_config.0".      *)
(***************************************************************************)
EXTENDS Integers, Sequences, FiniteSets, TLC

VARIABLES
    mode,       \* "write": Expand, the wire, Flatten; "read": Flatten of a DTO
    phase,      \* "start", "expanded", "received", "flattened"
    isNew,      \* d.IsNewResource()
    config,     \* d.GetRawConfig() at the user configuration block
    store,      \* the values of the resource data, d.Get
    changed,    \* the paths d.HasChange reports
    sent,       \* the DTO Expand returned
    received,   \* the DTO as the API answered it
    dto,        \* the map handed to Flatten, which Flatten changes in place
    out,        \* how the Flatten call ended
    rd,         \* the *schema.ResourceData of a service or service user resource
    remote,     \* what the API holds: the disk size of the service and of its plan
    calls,      \* the calls the last handler issued, in order, with their errors
    diags,      \* what the last handler returned: "nil" or "error"
    handler     \* the handler that ran last, "none" before any

vars == <<mode, phase, isNew, config, store, changed, sent, received, dto, out,
          rd, remote, calls, diags, handler>>

----------------------------------------------------------------------------
(* Go values *)

Nil == [k |-> "nil"]
GoString(s) == [k |-> "string", s |-> s]
GoBool(b) == [k |-> "bool", b |-> b]
GoInt(n) == [k |-> "int", n |-> n]
GoFloat(h) == [k |-> "float64", n |-> h]
JsonNumber(t) == [k |-> "jnum", s |-> t]
Slice(s) == [k |-> "slice", l |-> s]
GoMap(f) == [k |-> "map", m |-> f]
GoSet(s) == [k |-> "set", e |-> s]
EmptyMap == GoMap(<<>>)

IsNil(x) == x.k = "nil"

(* strconv / encoding/json numerals, on the numerals the inputs use *)
ParseInt(t) ==
    CASE t = "0" -> [ok |-> TRUE, n |-> 0]
      [] t = "1" -> [ok |-> TRUE, n |-> 1]
      [] t = "2" -> [ok |-> TRUE, n |-> 2]
      [] OTHER -> [ok |-> FALSE, n |-> 0]

ParseFloat(t) ==
    CASE t = "0" -> [ok |-> TRUE, n |-> 0]
      [] t = "0.5" -> [ok |-> TRUE, n |-> 1]
      [] t = "1" -> [ok |-> TRUE, n |-> 2]
      [] t = "1.0" -> [ok |-> TRUE, n |-> 2]
      [] t = "1.5" -> [ok |-> TRUE, n |-> 3]
      [] t = "2" -> [ok |-> TRUE, n |-> 4]
      [] OTHER -> [ok |-> FALSE, n |-> 0]

FormatInt(n) ==
    CASE n = 0 -> "0"
      [] n = 1 -> "1"
      [] n = 2 -> "2"
      [] OTHER -> "many"

FormatFloat(h) ==
    CASE h = 0 -> "0"
      [] h = 1 -> "0.5"
      [] h = 2 -> "1"
      [] h = 3 -> "1.5"
      [] h = 4 -> "2"
      [] OTHER -> "many"

(* fmt.Sprintf("%v", v) of a set element *)
GoSprint(x) ==
    CASE x.k = "string" -> x.s
      [] x.k = "int" -> FormatInt(x.n)
      [] x.k = "float64" -> FormatFloat(x.n)
      [] OTHER -> "?"

(* schema.Set.List(): the elements ordered by the decimal text of their    *)
(* CRC-32 hash code ("c" 112844655, "b" 1908338681, "a" 3904355907).       *)
HashRank(x) ==
    CASE x.k = "string" /\ x.s = "c" -> 1
      [] x.k = "string" /\ x.s = "b" -> 2
      [] x.k = "string" /\ x.s = "a" -> 3
      [] OTHER -> 4

RECURSIVE SetList(_)
SetList(S) ==
    IF S = {} THEN <<>>
    ELSE LET m == CHOOSE x \in S : \A y \in S : HashRank(x) <= HashRank(y)
         IN <<m>> \o SetList(S \ {m})

Range(s) == {s[i] : i \in DOMAIN s}

----------------------------------------------------------------------------
(* cty values of the raw configuration *)

CtyNull == [k |-> "null"]
CtyString(s) == [k |-> "string", s |-> s]
CtyNumber(t) == [k |-> "number", s |-> t]
CtyBool(b) == [k |-> "bool", b |-> b]
CtyList(s) == [k |-> "list", l |-> s]
CtyObject(f) == [k |-> "object", m |-> f]

IsNull(c) == c.k = "null"
CanIterateElements(c) == c.k \in {"list", "object"}
LengthInt(c) == IF c.k = "list" THEN Len(c.l) ELSE Cardinality(DOMAIN c.m)

----------------------------------------------------------------------------
(* schema.Schema nodes *)

Node(type, ek, et, fields, maxItems, forceNew) ==
    [type |-> type, ek |-> ek, et |-> et, fields |-> fields,
     maxItems |-> maxItems, forceNew |-> forceNew]

Scalar(type) == Node(type, "none", "none", <<>>, 0, FALSE)
ForceNew(type) == Node(type, "none", "none", <<>>, 0, TRUE)
SetOf(et) == Node("set", "schema", et, <<>>, 0, FALSE)
ListOf(et) == Node("list", "schema", et, <<>>, 0, FALSE)
ListOfObj(fields) == Node("list", "resource", "none", fields, 0, FALSE)
Object(fields) == Node("list", "resource", "none", fields, 1, FALSE)


(* The schema the converter walks: one field of every kind the converter   *)
(* tells apart, the two alias groups and the create-only fields.           *)
IpFilterObjectSchema ==
    ("network" :> Scalar("string")) @@ ("description" :> Scalar("string"))

NamespacesObjectSchema ==
    ("name" :> Scalar("string")) @@ ("retention" :> Scalar("string"))

MappingSchema ==
    ("namespaces" :> ListOf("string"))
    @@ ("namespaces_string" :> ListOf("string"))
    @@ ("namespaces_object" :> ListOfObj(NamespacesObjectSchema))

RulesSchema == ("mapping" :> Object(MappingSchema))

MigrationSchema ==
    ("host" :> Scalar("string")) @@ ("port" :> Scalar("int"))
    @@ ("method" :> ForceNew("string"))

RootSchema ==
    ("admin_username" :> ForceNew("string"))
    @@ ("admin_password" :> ForceNew("string"))
    @@ ("service_to_fork_from" :> ForceNew("string"))
    @@ ("custom_domain" :> Scalar("string"))
    @@ ("static_ips" :> Scalar("bool"))
    @@ ("backup_hour" :> Scalar("int"))
    @@ ("scale_factor" :> Scalar("float"))
    @@ ("ip_filter" :> SetOf("string"))
    @@ ("ip_filter_string" :> SetOf("string"))
    @@ ("ip_filter_object" :> ListOfObj(IpFilterObjectSchema))
    @@ ("additional_backup_regions" :> ListOf("string"))
    @@ ("migration" :> Object(MigrationSchema))
    @@ ("rules" :> ListOfObj(RulesSchema))

----------------------------------------------------------------------------
(* schema.ResourceData: Get, GetOk, HasChange, IsNewResource *)

IndexText(i) ==
    CASE i = 1 -> "0"
      [] i = 2 -> "1"
      [] i = 3 -> "2"
      [] OTHER -> "3"

IndexOf(t) ==
    CASE t = "0" -> 1
      [] t = "1" -> 2
      [] t = "2" -> 3
      [] OTHER -> 4

ZeroValue(type) ==
    CASE type = "string" -> GoString("")
      [] type = "bool" -> GoBool(FALSE)
      [] type = "int" -> GoInt(0)
      [] type = "float" -> GoFloat(0)
      [] type = "set" -> GoSet({})
      [] OTHER -> Slice(<<>>)

RECURSIVE Lookup(_, _)
Lookup(x, path) ==
    IF path = <<>> THEN x
    ELSE CASE x.k = "map" ->
                IF Head(path) \in DOMAIN x.m
                THEN Lookup(x.m[Head(path)], Tail(path)) ELSE Nil
           [] x.k = "slice" ->
                IF IndexOf(Head(path)) \in DOMAIN x.l
                THEN Lookup(x.l[IndexOf(Head(path))], Tail(path)) ELSE Nil
           [] OTHER -> Nil

(* d.Get(path): the stored value, the zero value of the type when unset *)
ResourceGet(path, type) ==
    LET x == Lookup(store, path) IN IF IsNil(x) THEN ZeroValue(type) ELSE x

IsZero(x) ==
    CASE x.k = "nil" -> TRUE
      [] x.k = "string" -> x.s = ""
      [] x.k = "bool" -> x.b = FALSE
      [] x.k \in {"int", "float64"} -> x.n = 0
      [] x.k = "slice" -> x.l = <<>>
      [] x.k = "set" -> x.e = {}
      [] OTHER -> FALSE

(* d.GetOk(path): ok when the value is set to a non-zero value *)
GetOk(path) ==
    LET x == Lookup(store, path) IN [val |-> x, ok |-> ~IsZero(x)]

IsNewResource == isNew

----------------------------------------------------------------------------
(* stateCompose: a schema node, its raw configuration and its path *)

StateCompose(schema, cfg, path) == [schema |-> schema, config |-> cfg, path |-> path]

value(s, type) == ResourceGet(s.path, type)

hasValue(s) ==
    IsNull(s.config) \/ (CanIterateElements(s.config) /\ LengthInt(s.config) = 0)

(* hasChange that never reports a change *)
hasChangeNever(s) == FALSE

hasChange(s) == s.path \in changed

CtyHash(item) == item.s

(* setItems without the test against the hashes of the configuration *)
setItemsAll(s) ==
    IF IsNull(s.config) THEN <<>> ELSE SetList(value(s, "set").e)

setItems(s) ==
    IF IsNull(s.config) THEN <<>>
    ELSE LET hashes == {CtyHash(s.config.l[i]) : i \in DOMAIN s.config.l}
         IN SelectSeq(SetList(value(s, "set").e), LAMBDA x : GoSprint(x) \in hashes)

listItems(s) ==
    IF IsNull(s.config) THEN <<>>
    ELSE [i \in DOMAIN s.config.l |->
            StateCompose(s.schema, s.config.l[i], Append(s.path, IndexText(i)))]

(* objectProperties without the ForceNew test *)
objectPropertiesKeysAll(s) == DOMAIN s.schema.fields

objectPropertiesKeys(s) ==
    {key \in DOMAIN s.schema.fields :
        ~(s.schema.fields[key].forceNew /\ ~IsNewResource)}

objectProperties(s) ==
    [key \in objectPropertiesKeys(s) |->
        StateCompose(s.schema.fields[key],
                     IF IsNull(s.config) THEN CtyNull ELSE s.config.m[key],
                     Append(s.path, key))]

ElemType(schema) == IF schema.ek = "schema" THEN schema.et ELSE schema.type

(* expandScalar going by the value of the store, not by the configuration *)
expandScalarStored(s) ==
    IF IsZero(value(s, ElemType(s.schema))) THEN Nil
    ELSE value(s, ElemType(s.schema))

(* expandScalar leaving out the zero value of the type *)
expandScalarOmitEmpty(s) ==
    IF hasValue(s) \/ IsZero(value(s, ElemType(s.schema)))
    THEN Nil ELSE value(s, ElemType(s.schema))

expandScalar(s) ==
    IF hasValue(s) THEN Nil ELSE value(s, ElemType(s.schema))

RECURSIVE expandObj(_), expandAttr(_)

expandObj(s) ==
    LET props == objectProperties(s)
        vals == [key \in DOMAIN props |-> expandAttr(props[key])]
    IN GoMap([key \in {x \in DOMAIN props : ~IsNil(vals[x])} |-> vals[key]])

(* expandAttr without the MaxItems == 1 branch *)
expandListPlain(s) ==
    LET isObjList == s.schema.ek = "resource"
        states == listItems(s)
        exps == [i \in DOMAIN states |->
                    IF isObjList THEN expandObj(states[i]) ELSE expandScalar(states[i])]
    IN Slice(SelectSeq(exps, LAMBDA e : ~IsNil(e)))

expandList(s) ==
    LET isObjList == s.schema.ek = "resource"
        states == listItems(s)
        exps == [i \in DOMAIN states |->
                    IF isObjList THEN expandObj(states[i]) ELSE expandScalar(states[i])]
        items == SelectSeq(exps, LAMBDA e : ~IsNil(e))
    IN IF isObjList /\ s.schema.maxItems = 1 /\ Len(items) = 1 THEN items[1]
       ELSE IF isObjList /\ s.schema.maxItems = 1 /\ Len(items) = 0 THEN Nil
       ELSE Slice(items)

(* expandAttr leaving out every field without a value, changed or not *)
expandAttrNoClear(s) ==
    IF s.schema.type \notin {"set", "list"} THEN expandScalar(s)
    ELSE IF hasValue(s) THEN Nil
    ELSE IF s.schema.type = "set" THEN Slice(setItems(s))
    ELSE expandList(s)

(* expandAttr without the "no value and no change" test *)
expandAttrAlways(s) ==
    IF s.schema.type \notin {"set", "list"} THEN expandScalar(s)
    ELSE IF s.schema.type = "set" THEN Slice(setItems(s))
    ELSE expandList(s)

expandAttr(s) ==
    IF s.schema.type \notin {"set", "list"} THEN expandScalar(s)
    ELSE IF hasValue(s) /\ ~hasChange(s) THEN Nil
    ELSE IF s.schema.type = "set" THEN Slice(setItems(s))
    ELSE expandList(s)


----------------------------------------------------------------------------
(* Aliases on the way out *)

Alias(path, to) == [path |-> path, to |-> to]

(* aliasFieldsMap without the object alias of namespaces *)
aliasFieldsMapShort ==
    {Alias(<<"ip_filter_string">>, "ip_filter"),
     Alias(<<"ip_filter_object">>, "ip_filter"),
     Alias(<<"rules", "0", "mapping", "0", "namespaces_string">>, "namespaces")}

aliasFieldsMap ==
    {Alias(<<"ip_filter_string">>, "ip_filter"),
     Alias(<<"ip_filter_object">>, "ip_filter"),
     Alias(<<"rules", "0", "mapping", "0", "namespaces_string">>, "namespaces"),
     Alias(<<"rules", "0", "mapping", "0", "namespaces_object">>, "namespaces")}

MapPut(m, key, x) == GoMap((key :> x) @@ m.m)
MapDelete(m, key) == GoMap([j \in DOMAIN m.m \ {key} |-> m.m[j]])
MapHas(m, key) == m.k = "map" /\ key \in DOMAIN m.m

(* The DTO holds a list of objects as an array and a single object plain:  *)
(* the index segment of a path picks the element of an array and stays on  *)
(* a plain object.                                                         *)
RECURSIVE renameAlias(_, _, _)
renameAlias(x, path, to) ==
    IF x.k # "map" \/ Head(path) \notin DOMAIN x.m THEN x
    ELSE IF Len(path) = 1 THEN MapPut(MapDelete(x, Head(path)), to, x.m[Head(path)])
    ELSE LET child == x.m[Head(path)]
             rest == Tail(Tail(path))
         IN CASE child.k = "map" -> MapPut(x, Head(path), renameAlias(child, rest, to))
              [] child.k = "slice" /\ IndexOf(path[2]) \in DOMAIN child.l ->
                    MapPut(x, Head(path),
                           Slice([child.l EXCEPT ![IndexOf(path[2])] =
                                     renameAlias(@, rest, to)]))
              [] OTHER -> x

(* The aliases are renamed in the iteration order of a Go map: when both   *)
(* aliases of a group are in the DTO the one renamed last stays.           *)
RECURSIVE renameAll(_, _)
renameAll(x, order) ==
    IF order = <<>> THEN x
    ELSE renameAll(renameAlias(x, Head(order).path, Head(order).to), Tail(order))

AliasOrders ==
    {o \in [1..Cardinality(aliasFieldsMap) -> aliasFieldsMap] :
        /\ Range(o) = aliasFieldsMap
        /\ o[1].to = o[2].to
        /\ o[1].to = "ip_filter"}

renameAliases(x, order) == renameAll(x, order)

RootNode == Object(RootSchema)

(* Expand: (dto, nil); expandScalar never returns an error *)
Expand(order) ==
    renameAliases(expandObj(StateCompose(RootNode, config, <<>>)), order)

----------------------------------------------------------------------------
(* Flatten *)

Ok(x) == [st |-> "ok", v |-> x, fails |-> {}]
Fail(F) == [st |-> "fail", v |-> Nil, fails |-> F]
Err(path) == [kind |-> "err", path |-> path]
Panic == [kind |-> "panic", path |-> <<>>]
Wrap(key, f) == IF f.kind = "err" THEN Err(<<key>> \o f.path) ELSE f

GoKind(type) == IF type = "float" THEN "float64" ELSE type

castType(type, data) ==
    IF data.k = GoKind(type) THEN Ok(data) ELSE Fail({Err(<<>>)})

flattenInt(data) ==
    IF data.k # "jnum" THEN Fail({Panic})
    ELSE IF ParseInt(data.s).ok THEN Ok(GoInt(ParseInt(data.s).n))
    ELSE Fail({Err(<<>>)})

flattenFloat(data) ==
    IF data.k # "jnum" THEN Fail({Panic})
    ELSE IF ParseFloat(data.s).ok THEN Ok(GoFloat(ParseFloat(data.s).n))
    ELSE Fail({Err(<<>>)})

flattenScalar(type, data) ==
    CASE type = "int" -> flattenInt(data)
      [] type = "float" -> flattenFloat(data)
      [] OTHER -> castType(type, data)

FirstFail(rs) ==
    LET bad == {i \in DOMAIN rs : rs[i].st = "fail"}
    IN IF bad = {} THEN 0 ELSE CHOOSE i \in bad : \A j \in bad : i <= j

flattenSet(s, data) ==
    IF data.k # "slice" THEN Fail({Panic})
    ELSE LET rs == [i \in DOMAIN data.l |-> flattenScalar(s.et, data.l[i])]
         IN IF FirstFail(rs) # 0 THEN rs[FirstFail(rs)]
            ELSE Ok(GoSet({rs[i].v : i \in DOMAIN rs}))

RECURSIVE flattenObj(_, _), flattenAttr(_, _), flattenList(_, _)

(* flattenObj without the test for a nil value *)
flattenObjNilToo(fields, data) ==
    LET keys == {key \in DOMAIN fields : key \in DOMAIN data.m}
        rs == [key \in keys |-> flattenAttr(fields[key], data.m[key])]
        bad == {key \in keys : rs[key].st = "fail"}
        tfo == [key \in {x \in keys : ~IsNil(rs[x].v)} |-> rs[key].v]
    IN IF bad # {}
       THEN Fail(UNION {{Wrap(key, f) : f \in rs[key].fails} : key \in bad})
       ELSE IF DOMAIN tfo = {} THEN Ok(Nil) ELSE Ok(GoMap(tfo))

flattenObj(fields, data) ==
    LET keys == {key \in DOMAIN fields :
                    key \in DOMAIN data.m /\ ~IsNil(data.m[key])}
        rs == [key \in keys |-> flattenAttr(fields[key], data.m[key])]
        bad == {key \in keys : rs[key].st = "fail"}
        tfo == [key \in {x \in keys : ~IsNil(rs[x].v)} |-> rs[key].v]
    IN IF bad # {}
       THEN Fail(UNION {{Wrap(key, f) : f \in rs[key].fails} : key \in bad})
       ELSE IF DOMAIN tfo = {} THEN Ok(Nil) ELSE Ok(GoMap(tfo))

flattenList(fields, list) ==
    IF Len(list) = 0 THEN Ok(Slice(<<>>))
    ELSE LET rs == [i \in DOMAIN list |->
                      IF list[i].k # "map" THEN Fail({Panic})
                      ELSE flattenObj(fields, list[i])]
             vs == [i \in DOMAIN list |-> rs[i].v]
         IN IF FirstFail(rs) # 0 THEN rs[FirstFail(rs)]
            ELSE Ok(Slice(SelectSeq(vs, LAMBDA x : ~IsNil(x))))

flattenAttr(s, data) ==
    IF s.type \notin {"set", "list"} THEN flattenScalar(s.type, data)
    ELSE IF s.ek = "schema" /\ s.type = "list"
         THEN (IF data.k = "slice" THEN Ok(data) ELSE Fail({Panic}))
    ELSE IF s.ek = "schema" THEN flattenSet(s, data)
    ELSE IF data.k = "map"
         THEN flattenList(s.fields, IF DOMAIN data.m # {} THEN <<data>> ELSE <<>>)
    ELSE IF data.k = "slice" THEN flattenList(s.fields, data.l)
    ELSE Fail({Panic})


(* key + suffix *)
AliasName(key, suffix) ==
    CASE key = "ip_filter" /\ suffix = "_string" -> "ip_filter_string"
      [] key = "ip_filter" /\ suffix = "_object" -> "ip_filter_object"
      [] key = "namespaces" /\ suffix = "_string" -> "namespaces_string"
      [] key = "namespaces" /\ suffix = "_object" -> "namespaces_object"
      [] OTHER -> key

KeyOf(x, sortBy) ==
    IF x.k = "map" /\ sortBy \in DOMAIN x.m THEN x.m[sortBy] ELSE Nil

(* The DTO objects in the order the state holds their keys, the objects    *)
(* whose key the state does not hold after them, in the DTO's order.       *)
sortByKey(sortBy, inStateObjs, data) ==
    LET stateKeys == [i \in DOMAIN inStateObjs.l |-> KeyOf(inStateObjs.l[i], sortBy)]
        known(x) == \E i \in DOMAIN stateKeys : stateKeys[i] = KeyOf(x, sortBy)
        RECURSIVE inOrder(_)
        inOrder(i) ==
            IF i > Len(stateKeys) THEN <<>>
            ELSE (IF \E j \in 1..(i - 1) : stateKeys[j] = stateKeys[i] THEN <<>>
                  ELSE SelectSeq(data.l, LAMBDA x : KeyOf(x, sortBy) = stateKeys[i]))
                 \o inOrder(i + 1)
    IN Slice(inOrder(1) \o SelectSeq(data.l, LAMBDA x : ~known(x)))

(* assignAlias without the delete of the logical key *)
assignAliasKeep(parent, m, key, sortBy) ==
    LET values == IF key \in DOMAIN m.m THEN m.m[key] ELSE Nil
        isObj == values.l[1].k = "map"
        inStateStr == GetOk(Append(parent, AliasName(key, "_string")))
        suffix == IF inStateStr.ok THEN "_string"
                  ELSE IF isObj THEN "_object" ELSE ""
    IN IF values.k # "slice" \/ Len(values.l) = 0 THEN m
       ELSE IF suffix # "" THEN MapPut(m, AliasName(key, suffix), values)
       ELSE m

(* assignAlias choosing the suffix by what the state holds *)
assignAliasByState(parent, m, key, sortBy) ==
    LET values == IF key \in DOMAIN m.m THEN m.m[key] ELSE Nil
        isObj == values.l[1].k = "map"
        inStateObjs == GetOk(Append(parent, AliasName(key, "_object")))
        inStateStr == GetOk(Append(parent, AliasName(key, "_string")))
        sorted == IF isObj /\ inStateObjs.ok
                  THEN sortByKey(sortBy, inStateObjs.val, values) ELSE values
        suffix == IF inStateStr.ok THEN "_string"
                  ELSE IF isObj \/ inStateObjs.ok THEN "_object" ELSE ""
    IN IF values.k # "slice" \/ Len(values.l) = 0 THEN m
       ELSE IF suffix # ""
            THEN MapDelete(MapPut(m, AliasName(key, suffix), sorted), key)
            ELSE MapPut(m, key, sorted)

(* assignAlias without the call of sortByKey *)
assignAliasUnsorted(parent, m, key, sortBy) ==
    LET values == IF key \in DOMAIN m.m THEN m.m[key] ELSE Nil
        isObj == values.l[1].k = "map"
        inStateStr == GetOk(Append(parent, AliasName(key, "_string")))
        suffix == IF inStateStr.ok THEN "_string"
                  ELSE IF isObj THEN "_object" ELSE ""
    IN IF values.k # "slice" \/ Len(values.l) = 0 THEN m
       ELSE IF suffix # ""
            THEN MapDelete(MapPut(m, AliasName(key, suffix), values), key)
            ELSE m

assignAlias(parent, m, key, sortBy) ==
    LET values == IF key \in DOMAIN m.m THEN m.m[key] ELSE Nil
        isObj == values.l[1].k = "map"
        inStateObjs == GetOk(Append(parent, AliasName(key, "_object")))
        inStateStr == GetOk(Append(parent, AliasName(key, "_string")))
        sorted == IF isObj /\ inStateObjs.ok
                  THEN sortByKey(sortBy, inStateObjs.val, values) ELSE values
        suffix == IF inStateStr.ok THEN "_string"
                  ELSE IF isObj THEN "_object" ELSE ""
    IN IF values.k # "slice" \/ Len(values.l) = 0 THEN m
       ELSE IF suffix # ""
            THEN MapDelete(MapPut(m, AliasName(key, suffix), sorted), key)
            ELSE MapPut(m, key, sorted)

(* createOnlyFields without admin_password *)
createOnlyFieldsShort == <<"admin_username">>

createOnlyFields == <<"admin_username", "admin_password">>

(* drillKey(dto, "rules.0.mapping"): the value under mapping of the first  *)
(* element of rules                                                        *)
drillKey(m, path) ==
    LET rules == IF path[1] \in DOMAIN m.m THEN m.m[path[1]] ELSE Nil
        first == IF rules.k = "slice" /\ IndexOf(path[2]) \in DOMAIN rules.l
                 THEN rules.l[IndexOf(path[2])] ELSE Nil
    IN IF first.k = "map" /\ path[3] \in DOMAIN first.m
       THEN [val |-> first.m[path[3]], ok |-> TRUE]
       ELSE [val |-> Nil, ok |-> FALSE]

SetDrilled(m, path, x) ==
    MapPut(m, path[1],
           Slice([m.m[path[1]].l EXCEPT ![IndexOf(path[2])] = MapPut(@, path[3], x)]))

MappingPath == <<"rules", "0", "mapping">>

(* Flatten, lines 236-239 *)
renameIpFilter(m) ==
    IF "ip_filter" \in DOMAIN m.m
    THEN assignAlias(<<>>, m, "ip_filter", "network") ELSE m

(* Flatten, lines 241-244: mapping.(map[string]any) panics on anything else *)
renameNamespaces(m) ==
    LET mapping == drillKey(m, MappingPath)
    IN IF ~mapping.ok THEN [panic |-> FALSE, dto |-> m]
       ELSE IF mapping.val.k # "map" THEN [panic |-> TRUE, dto |-> m]
       ELSE [panic |-> FALSE,
             dto |-> SetDrilled(m, MappingPath,
                        assignAlias(Append(MappingPath, "0"), mapping.val,
                                    "namespaces", "name"))]

(* Flatten, lines 246-253 *)
RECURSIVE copyCreateOnly(_, _)
copyCreateOnly(m, fields) ==
    IF fields = <<>> THEN m
    ELSE LET got == GetOk(<<Head(fields)>>)
         IN copyCreateOnly(IF got.ok THEN MapPut(m, Head(fields), got.val) ELSE m,
                           Tail(fields))

(* The DTO map as Flatten leaves it: the map is changed in place *)
FlattenDto(m) ==
    LET renamed == renameNamespaces(renameIpFilter(m))
    IN IF renamed.panic THEN renamed
       ELSE [panic |-> FALSE, dto |-> copyCreateOnly(renamed.dto, createOnlyFields)]

NoOutcome == [st |-> "none", v |-> Nil, path |-> <<>>]
Returned(x) == [st |-> "ok", v |-> x, path |-> <<>>]
Failed(f) == [st |-> f.kind, v |-> Nil, path |-> f.path]

(* The ways a Flatten call can end: the schema is walked in the iteration  *)
(* order of a Go map, so of several failing fields any one can end it.     *)
Flatten(m) ==
    LET prepared == FlattenDto(m)
        tfo == flattenObj(RootSchema, prepared.dto)
    IN IF prepared.panic THEN {Failed(Panic)}
       ELSE IF tfo.st = "fail" THEN {Failed(f) : f \in tfo.fails}
       ELSE IF IsNil(tfo.v) THEN {Returned(Nil)}
       ELSE {Returned(Slice(<<tfo.v>>))}

----------------------------------------------------------------------------
(* The DTO on the wire: json.Marshal by the API client, decoded with       *)
(* UseNumber on the way back                                               *)
RECURSIVE ToJson(_)
ToJson(x) ==
    CASE x.k = "int" -> JsonNumber(FormatInt(x.n))
      [] x.k = "float64" -> JsonNumber(FormatFloat(x.n))
      [] x.k = "slice" -> Slice([i \in DOMAIN x.l |-> ToJson(x.l[i])])
      [] x.k = "map" -> GoMap([key \in DOMAIN x.m |-> ToJson(x.m[key])])
      [] OTHER -> x


----------------------------------------------------------------------------
(* Inputs.  At most MaxVaried fields differ from "never declared, never    *)
(* stored" at a time.                                                      *)

MaxVaried == 2

(* An undeclared block is an empty list, an undeclared attribute is null *)
DefaultConfig(schema) ==
    IF schema.ek = "resource" THEN CtyList(<<>>) ELSE CtyNull

ObjectConfig(fields, declared) ==
    CtyObject([key \in DOMAIN fields |->
        IF key \in DOMAIN declared THEN declared[key] ELSE DefaultConfig(fields[key])])

IsAbsent(cfg) == IsNull(cfg) \/ (cfg.k = "list" /\ Len(cfg.l) = 0)

(* The resource data holds what the configuration declares *)
RECURSIVE Planned(_, _)
Planned(schema, cfg) ==
    CASE cfg.k = "null" -> Nil
      [] cfg.k = "string" -> GoString(cfg.s)
      [] cfg.k = "bool" -> GoBool(cfg.b)
      [] cfg.k = "number" ->
            IF schema.type = "int" \/ schema.et = "int"
            THEN GoInt(ParseInt(cfg.s).n) ELSE GoFloat(ParseFloat(cfg.s).n)
      [] cfg.k = "list" /\ schema.type = "set" ->
            GoSet({Planned(schema, cfg.l[i]) : i \in DOMAIN cfg.l})
      [] cfg.k = "list" ->
            Slice([i \in DOMAIN cfg.l |-> Planned(schema, cfg.l[i])])
      [] OTHER ->
            GoMap([key \in {x \in DOMAIN cfg.m : ~IsAbsent(cfg.m[x])} |->
                     Planned(schema.fields[key], cfg.m[key])])

Cell(cfg, val, chg) == [cfg |-> cfg, val |-> val, chg |-> chg]

(* declared by the user; the path changed or not *)
Declared(key, cfg, isChanged) ==
    Cell(cfg, Planned(RootSchema[key], cfg), IF isChanged THEN {<<key>>} ELSE {})
(* not declared, the value was received from the API *)
Remote(key, val) == Cell(DefaultConfig(RootSchema[key]), val, {})
(* not declared any more: removed by the user *)
Removed(key) == Cell(DefaultConfig(RootSchema[key]), Nil, {<<key>>})

StringCells(key) ==
    {Declared(key, CtyString("a"), TRUE), Declared(key, CtyString(""), FALSE),
     Remote(key, GoString("b")), Removed(key)}

IpA == ObjectConfig(IpFilterObjectSchema, "network" :> CtyString("a"))
IpB == ObjectConfig(IpFilterObjectSchema,
            ("network" :> CtyString("b")) @@ ("description" :> CtyString("b")))
NsA == ObjectConfig(NamespacesObjectSchema, "name" :> CtyString("a"))
NsB == ObjectConfig(NamespacesObjectSchema,
            ("name" :> CtyString("b")) @@ ("retention" :> CtyString("")))

Strings(s) == CtyList([i \in DOMAIN s |-> CtyString(s[i])])

MappingConfig(declared) == CtyList(<<ObjectConfig(MappingSchema, declared)>>)
RulesConfig(mapping) == CtyList(<<ObjectConfig(RulesSchema, "mapping" :> mapping)>>)
MigrationConfig(declared) == CtyList(<<ObjectConfig(MigrationSchema, declared)>>)

NamespacesPath(key) == <<"rules", "0", "mapping", "0", key>>

Cells ==
    ("admin_username" :> {Declared("admin_username", CtyString("a"), FALSE),
                          Remote("admin_username", GoString("b"))})
    @@ ("admin_password" :> StringCells("admin_password"))
    @@ ("service_to_fork_from" :> {Declared("service_to_fork_from", CtyString("a"), FALSE),
                                   Remote("service_to_fork_from", GoString("b"))})
    @@ ("custom_domain" :> StringCells("custom_domain"))
    @@ ("static_ips" :> {Declared("static_ips", CtyBool(TRUE), TRUE),
                         Declared("static_ips", CtyBool(FALSE), FALSE),
                         Remote("static_ips", GoBool(TRUE))})
    @@ ("backup_hour" :> {Declared("backup_hour", CtyNumber("1"), TRUE),
                          Declared("backup_hour", CtyNumber("0"), FALSE),
                          Remote("backup_hour", GoInt(2))})
    @@ ("scale_factor" :> {Declared("scale_factor", CtyNumber("1.5"), TRUE),
                           Declared("scale_factor", CtyNumber("0"), FALSE),
                           Declared("scale_factor", CtyNumber("1.0"), FALSE),
                           Remote("scale_factor", GoFloat(1))})
    @@ ("ip_filter" :> {Declared("ip_filter", Strings(<<"a">>), TRUE),
                        Declared("ip_filter", Strings(<<"a", "b">>), FALSE),
                        Declared("ip_filter", Strings(<<>>), TRUE),
                        Declared("ip_filter", Strings(<<>>), FALSE),
                        Cell(Strings(<<"a">>),
                             GoSet({GoString("a"), GoString("b"), GoString("c")}), {}),
                        Cell(Strings(<<"a">>), GoSet({GoString("b")}), {<<"ip_filter">>}),
                        Remote("ip_filter", GoSet({GoString("a")})),
                        Removed("ip_filter")})
    @@ ("ip_filter_string" :> {Declared("ip_filter_string", Strings(<<"a", "b">>), TRUE),
                               Declared("ip_filter_string", Strings(<<"c">>), FALSE),
                               Removed("ip_filter_string")})
    @@ ("ip_filter_object" :> {Declared("ip_filter_object", CtyList(<<IpA>>), TRUE),
                               Declared("ip_filter_object", CtyList(<<IpA, IpB>>), FALSE),
                               Declared("ip_filter_object", CtyList(<<IpB, IpA>>), FALSE),
                               Remote("ip_filter_object",
                                      Planned(RootSchema["ip_filter_object"], CtyList(<<IpA>>))),
                               Removed("ip_filter_object")})
    @@ ("additional_backup_regions" :>
            {Declared("additional_backup_regions", Strings(<<"a">>), TRUE),
             Declared("additional_backup_regions", Strings(<<"b", "a">>), FALSE),
             Declared("additional_backup_regions",
                      CtyList(<<CtyString("a"), CtyNull>>), FALSE),
             Declared("additional_backup_regions", Strings(<<>>), TRUE),
             Declared("additional_backup_regions", Strings(<<>>), FALSE),
             Remote("additional_backup_regions", Slice(<<GoString("a")>>)),
             Removed("additional_backup_regions")})
    @@ ("migration" :>
            {Declared("migration", MigrationConfig("host" :> CtyString("a")), TRUE),
             Declared("migration",
                      MigrationConfig(("host" :> CtyString("")) @@ ("port" :> CtyNumber("1"))
                                      @@ ("method" :> CtyString("a"))), FALSE),
             Declared("migration", MigrationConfig(<<>>), FALSE),
             Cell(MigrationConfig("host" :> CtyString("a")),
                  Slice(<<GoMap(("host" :> GoString("a")) @@ ("port" :> GoInt(2)))>>), {}),
             Remote("migration", Slice(<<GoMap("host" :> GoString("b"))>>)),
             Removed("migration")})
    @@ ("rules" :>
            {Declared("rules",
                      RulesConfig(MappingConfig("namespaces" :> Strings(<<"a">>))), TRUE),
             Declared("rules",
                      RulesConfig(MappingConfig("namespaces_string" :> Strings(<<"a", "b">>))),
                      FALSE),
             Declared("rules",
                      RulesConfig(MappingConfig("namespaces_object" :> CtyList(<<NsA, NsB>>))),
                      FALSE),
             Declared("rules",
                      RulesConfig(MappingConfig("namespaces_object" :> CtyList(<<NsB, NsA>>))),
                      FALSE),
             Declared("rules", RulesConfig(MappingConfig(<<>>)), FALSE),
             Declared("rules", RulesConfig(CtyList(<<>>)), FALSE),
             Cell(RulesConfig(MappingConfig("namespaces_string" :> Strings(<<"a">>))),
                  Planned(RootSchema["rules"],
                          RulesConfig(MappingConfig("namespaces_string" :> Strings(<<"a">>)))),
                  {NamespacesPath("namespaces"), NamespacesPath("namespaces_object")}),
             Remote("rules",
                    Planned(RootSchema["rules"],
                            RulesConfig(MappingConfig("namespaces" :> Strings(<<"a">>))))),
             Removed("rules")})

RECURSIVE UpTo(_, _)
UpTo(S, n) ==
    IF n = 0 THEN {{}}
    ELSE LET P == UpTo(S, n - 1) IN P \cup {T \cup {x} : T \in P, x \in S}

RECURSIVE Choices(_, _)
Choices(S, options) ==
    IF S = {} THEN {<<>>}
    ELSE LET key == CHOOSE x \in S : TRUE
         IN {(key :> c) @@ f : c \in options[key], f \in Choices(S \ {key}, options)}

(* A resource being created or updated: Expand, the DTO on the wire, and   *)
(* Flatten of what came back.                                              *)
InitWrite ==
    \E S \in UpTo(DOMAIN RootSchema, MaxVaried) : \E f \in Choices(S, Cells) :
    \E block \in BOOLEAN :
        /\ block \/ \A key \in S : IsAbsent(f[key].cfg)
        /\ mode = "write"
        /\ phase = "start"
        /\ isNew \in BOOLEAN
        /\ config = IF block THEN ObjectConfig(RootSchema, [key \in S |-> f[key].cfg])
                    ELSE CtyNull
        /\ store = GoMap([key \in {x \in S : ~IsNil(f[x].val)} |-> f[key].val])
        /\ changed = UNION {f[key].chg : key \in S}
        /\ sent = Nil
        /\ received = Nil
        /\ dto = Nil
        /\ out = NoOutcome


(* A refresh: Flatten of a DTO of the API against the state of the         *)
(* resource.  Flatten reads the state at the aliases and at the            *)
(* create-only fields only.                                                *)
DtoA == GoMap("network" :> GoString("a"))
DtoB == GoMap(("network" :> GoString("b")) @@ ("description" :> GoString("b")))
DtoC == GoMap("network" :> GoString("c"))
DtoNsA == GoMap("name" :> GoString("a"))
DtoNsB == GoMap(("name" :> GoString("b")) @@ ("retention" :> GoString("")))

GoStrings(s) == Slice([i \in DOMAIN s |-> GoString(s[i])])
DtoRules(mapping) == Slice(<<GoMap("mapping" :> mapping)>>)
DtoMapping(namespaces) == GoMap("namespaces" :> namespaces)

StateNamespaces(key, val) ==
    Slice(<<GoMap("mapping" :> Slice(<<GoMap(key :> val)>>))>>)

PriorCells ==
    ("ip_filter_string" :> {GoSet({GoString("a")})})
    @@ ("ip_filter_object" :> {Slice(<<DtoA, DtoB>>), Slice(<<DtoB, DtoA>>),
                               Slice(<<DtoB>>)})
    @@ ("rules" :> {StateNamespaces("namespaces_string", GoStrings(<<"a">>)),
                    StateNamespaces("namespaces_object", Slice(<<DtoNsA, DtoNsB>>)),
                    StateNamespaces("namespaces_object", Slice(<<DtoNsB, DtoNsA>>))})
    @@ ("admin_username" :> {GoString("a")})
    @@ ("admin_password" :> {GoString("secret123"), GoString("")})

DtoCells ==
    ("ip_filter" :> {GoStrings(<<"a", "b">>), Slice(<<DtoA, DtoB>>),
                     Slice(<<DtoB, DtoA>>), Slice(<<DtoA, DtoC>>), Slice(<<>>),
                     Nil, GoString("a")})
    @@ ("rules" :> {DtoRules(DtoMapping(GoStrings(<<"a">>))),
                    DtoRules(DtoMapping(Slice(<<DtoNsA, DtoNsB>>))),
                    DtoRules(DtoMapping(Slice(<<DtoNsB, DtoNsA>>))),
                    DtoRules(EmptyMap), DtoRules(Nil), DtoRules(Slice(<<>>)),
                    Slice(<<>>)})
    @@ ("admin_username" :> {GoString("b")})
    @@ ("admin_password" :> {GoString("b"), Nil})
    @@ ("service_to_fork_from" :> {GoString("a")})
    @@ ("custom_domain" :> {GoString("a"), GoString(""), JsonNumber("1")})
    @@ ("static_ips" :> {GoBool(TRUE), GoBool(FALSE), GoString("true")})
    @@ ("backup_hour" :> {JsonNumber("1"), JsonNumber("0"), JsonNumber("1.5"),
                          GoString("1")})
    @@ ("scale_factor" :> {JsonNumber("1.5"), JsonNumber("1"), GoBool(TRUE)})
    @@ ("additional_backup_regions" :> {GoStrings(<<"b", "a">>), Slice(<<>>),
                                        GoString("a")})
    @@ ("migration" :> {GoMap(("host" :> GoString("a")) @@ ("port" :> JsonNumber("1"))),
                        EmptyMap,
                        GoMap("unknown" :> GoString("a")),
                        GoMap("host" :> Nil),
                        GoMap("port" :> JsonNumber("1.5")),
                        Slice(<<GoMap("host" :> GoString("a"))>>),
                        Slice(<<GoMap("host" :> GoString("a")),
                                GoMap("host" :> GoString("b"))>>),
                        Slice(<<GoString("a")>>)})
    @@ ("unknown" :> {GoString("a")})

PriorKeys == DOMAIN PriorCells
DtoKeys == DOMAIN DtoCells

(* The pool of what a refresh varies: the state's fields and the DTO's keys *)
Pool == {<<"state", key>> : key \in PriorKeys} \cup {<<"dto", key>> : key \in DtoKeys}
PoolCells == [item \in Pool |->
                 IF item[1] = "state" THEN PriorCells[item[2]] ELSE DtoCells[item[2]]]

Picked(f, side) ==
    GoMap([key \in {item[2] : item \in {x \in DOMAIN f : x[1] = side}} |->
              f[<<side, key>>]])

(* What the state holds besides: nothing, or both aliases of ip_filter *)
PriorExtras ==
    {EmptyMap,
     GoMap(("ip_filter_string" :> GoSet({GoString("a")}))
           @@ ("ip_filter_object" :> Slice(<<DtoB, DtoA>>)))}

InitRead ==
    \E S \in UpTo(Pool, MaxVaried) : \E f \in Choices(S, PoolCells) :
    \E extra \in PriorExtras :
        /\ mode = "read"
        /\ phase = "received"
        /\ isNew = FALSE
        /\ config = CtyNull
        /\ store = GoMap(Picked(f, "state").m @@ extra.m)
        /\ changed = {}
        /\ sent = Nil
        /\ received = Picked(f, "dto")
        /\ dto = received
        /\ out = NoOutcome

(* No service handler runs while a user configuration is converted *)
ServiceIdle ==
    /\ rd = [resource |-> "none", id |-> <<>>, isNew |-> FALSE,
             disk_space |-> [set |-> FALSE, bytes |-> 0],
             additional_disk_space |-> [set |-> FALSE, bytes |-> 0],
             disk_space_used |-> [set |-> FALSE, bytes |-> 0],
             disk_space_default |-> [set |-> FALSE, bytes |-> 0],
             password |-> "", ass |-> <<>>, dis |-> <<>>]
    /\ remote = [DiskSpaceMB |-> 0, DiskSizeMBDefault |-> 0]
    /\ calls = <<>>
    /\ diags = "none"
    /\ handler = "none"

Init == (InitWrite \/ InitRead) /\ ServiceIdle

----------------------------------------------------------------------------
(* Operations *)

ExpandCall ==
    /\ phase = "start"
    /\ \E order \in AliasOrders : sent' = Expand(order)
    /\ phase' = "expanded"
    /\ UNCHANGED <<mode, isNew, config, store, changed, received, dto, out>>
    /\ UNCHANGED <<rd, remote, calls, diags, handler>>

(* The API answers with the user configuration it was sent *)
Transport ==
    /\ phase = "expanded"
    /\ received' = ToJson(sent)
    /\ dto' = received'
    /\ phase' = "received"
    /\ UNCHANGED <<mode, isNew, config, store, changed, sent, out>>
    /\ UNCHANGED <<rd, remote, calls, diags, handler>>

FlattenCall ==
    /\ phase = "received"
    /\ \E outcome \in Flatten(dto) : out' = outcome
    /\ dto' = FlattenDto(dto).dto
    /\ phase' = "flattened"
    /\ UNCHANGED <<mode, isNew, config, store, changed, sent, received>>
    /\ UNCHANGED <<rd, remote, calls, diags, handler>>

Next == ExpandCall \/ Transport \/ FlattenCall

Spec == Init /\ [][Next]_vars

----------------------------------------------------------------------------
(* Service and service user resources                                      *)
(*                                                                         *)
(* A handler runs as one step.  Its run is a record of the resource data,  *)
(* the remote side, the calls issued so far with the error each returned,  *)
(* the diagnostics ("running" until the handler returns) and the local     *)
(* diskSpace.  The error of every call is the environment's choice.        *)

MaxFaults == 2

MiB == 1048576

(* a size as the configuration writes it: the empty string, or a number of *)
(* bytes with a unit                                                       *)
NoSize == [set |-> FALSE, bytes |-> 0]
Size(bytes) == [set |-> TRUE, bytes |-> bytes]

(* d.GetOk of a string field: set when the string is not empty *)
GetOkString(size) == size.set

ConvertToDiskSpaceMB(b) == IF b.set THEN b.bytes \div MiB ELSE 0

HumanReadableByteSize(s) == Size(s)

NoId == <<>>
BuildResourceID(parts) == parts
SplitResourceID(id, n) == IF Len(id) = n THEN "nil" ELSE "other"

NoErr == "nil"

IsNotFound(err) == err = "notFound"

IsUnknownRole(err) == err = "unknownRole"

IsUnknownResource(err) == IsNotFound(err) \/ IsUnknownRole(err)

(* ResourceReadHandleNotFound without the d.IsNewResource check *)
ResourceReadHandleNotFoundAlways(err, d) ==
    IF err # NoErr /\ IsUnknownResource(err)
    THEN [err |-> NoErr, rd |-> [d EXCEPT !.id = NoId]]
    ELSE [err |-> err, rd |-> d]

ResourceReadHandleNotFound(err, d) ==
    IF err # NoErr /\ IsUnknownResource(err) /\ ~d.isNew
    THEN [err |-> NoErr, rd |-> [d EXCEPT !.id = NoId]]
    ELSE [err |-> err, rd |-> d]

(* a call: its name, the address and the disk size it passes, if any *)
Call(name, ip, mb) == [api |-> name, ip |-> ip, DiskSpaceMB |-> mb]

(* the errors the calls of one run return: at most MaxFaults of them fail *)
Answers(keys) ==
    {[k \in keys |-> IF k \in DOMAIN f THEN f[k] ELSE NoErr] :
        f \in UNION {[F -> {"notFound", "unknownRole", "other"}] : F \in UpTo(keys, MaxFaults)}}

Answer(ans, call) == ans[<<call.api, call.ip>>]

Start(d, r) ==
    [rd |-> d, remote |-> r, calls |-> <<>>, diags |-> "running", diskSpace |-> 0]

Running(run) == run.diags = "running"

Return(run, diag) == IF Running(run) THEN [run EXCEPT !.diags = diag] ELSE run

Log(run, call, err) ==
    [run EXCEPT !.calls = Append(@, [api |-> call.api, ip |-> call.ip,
                                     DiskSpaceMB |-> call.DiskSpaceMB, err |-> err])]

(* a call followed by "if err != nil { return diag.Errorf(...) }" *)
Do(run, call, ans) ==
    IF ~Running(run) THEN run
    ELSE LET err == Answer(ans, call)
         IN IF err # NoErr THEN Return(Log(run, call, err), "error")
            ELSE Log(run, call, err)

(* "for _, ip := range ips": one call for each address, until one fails *)
RECURSIVE DoEach(_, _, _, _)
DoEach(run, name, ips, ans) ==
    IF ips = <<>> THEN run
    ELSE DoEach(Do(run, Call(name, Head(ips), 0), ans), name, Tail(ips), ans)

(* d.SplitResourceIDn(d.Id()) with its error check *)
Split(run, n) ==
    IF Running(run) /\ SplitResourceID(run.rd.id, n) # NoErr
    THEN Return(run, "error") ELSE run

(* copyServicePropertiesFromAPIResponseToTerraform storing the whole disk  *)
(* size as additional_disk_space                                           *)
copyServicePropertiesWholeSize(d, DiskSpaceMB, DiskSizeMBDefault) ==
    LET d1 == IF GetOkString(d.disk_space) /\ DiskSpaceMB # 0
              THEN [d EXCEPT !.disk_space = HumanReadableByteSize(DiskSpaceMB * MiB)]
              ELSE d
        d2 == IF GetOkString(d1.additional_disk_space) /\ DiskSpaceMB # 0
              THEN [d1 EXCEPT !.additional_disk_space =
                        HumanReadableByteSize(DiskSpaceMB * MiB)]
              ELSE d1
    IN [d2 EXCEPT !.disk_space_used = HumanReadableByteSize(DiskSpaceMB * MiB),
                  !.disk_space_default = HumanReadableByteSize(DiskSizeMBDefault * MiB)]

copyServicePropertiesFromAPIResponseToTerraform(d, DiskSpaceMB, DiskSizeMBDefault) ==
    LET d1 == IF GetOkString(d.disk_space) /\ DiskSpaceMB # 0
              THEN [d EXCEPT !.disk_space = HumanReadableByteSize(DiskSpaceMB * MiB)]
              ELSE d
        d2 == IF GetOkString(d1.additional_disk_space) /\ DiskSpaceMB # 0
              THEN [d1 EXCEPT !.additional_disk_space =
                        HumanReadableByteSize((DiskSpaceMB - DiskSizeMBDefault) * MiB)]
              ELSE d1
    IN [d2 EXCEPT !.disk_space_used = HumanReadableByteSize(DiskSpaceMB * MiB),
                  !.disk_space_default = HumanReadableByteSize(DiskSizeMBDefault * MiB)]

ResourceServiceRead(run, ans) ==
    LET split == Split(run, 2)
        err == Answer(ans, Call("Services.Get", "", 0))
        got == Log(split, Call("Services.Get", "", 0), err)
        handled == ResourceReadHandleNotFound(err, got.rd)
        params == Do(got, Call("GetServicePlanParametersFromServiceResponse", "", 0), ans)
        copied == IF Running(params)
                  THEN [params EXCEPT !.rd = copyServicePropertiesFromAPIResponseToTerraform(
                            @, params.remote.DiskSpaceMB, params.remote.DiskSizeMBDefault)]
                  ELSE params
        allocated == Do(copied, Call("CurrentlyAllocatedStaticIps", "", 0), ans)
        tags == Do(allocated, Call("ServiceTags.Get", "", 0), ans)
    IN IF ~Running(split) THEN split
       ELSE IF err # NoErr
            THEN IF handled.err # NoErr THEN Return(got, "error")
                 ELSE Return([got EXCEPT !.rd = handled.rd], "nil")
            ELSE Return(tags, "nil")

(* the service the API provisions for a request: a size of 0 asks for the  *)
(* default of the plan on creation and for no change on update             *)
Provision(run, created) ==
    IF ~Running(run) THEN run
    ELSE IF run.diskSpace # 0 THEN [run EXCEPT !.remote.DiskSpaceMB = run.diskSpace]
    ELSE IF created THEN [run EXCEPT !.remote.DiskSpaceMB = run.remote.DiskSizeMBDefault]
    ELSE run

(* resourceServiceCreate with d.SetId moved right after Services.Create *)
resourceServiceCreateIdFirst(run, ans) ==
    LET d == run.rd
        params == Do(run, Call("GetServicePlanParametersFromSchema", "", 0), ans)
        sized == IF GetOkString(d.disk_space)
                 THEN [run EXCEPT !.diskSpace = ConvertToDiskSpaceMB(d.disk_space)]
                 ELSE IF ~Running(params) THEN params
                 ELSE IF GetOkString(d.additional_disk_space)
                      THEN [params EXCEPT !.diskSpace = params.remote.DiskSizeMBDefault
                                + ConvertToDiskSpaceMB(d.additional_disk_space)]
                      ELSE [params EXCEPT !.diskSpace = params.remote.DiskSizeMBDefault]
        vpcID == Do(sized, Call("GetProjectVPCIdPointer", "", 0), ans)
        cuc == Do(vpcID, Call("apiconvert.ToAPI", "", 0), ans)
        created == Provision(Do(cuc, Call("Services.Create", "", cuc.diskSpace), ans), TRUE)
        named == IF Running(created)
                 THEN [created EXCEPT !.rd.id = BuildResourceID(<<"project", "service">>)]
                 ELSE created
        waited == Do(named, Call("WaitForServiceCreation", "", 0), ans)
        tagged == Do(waited, Call("ServiceTags.Set", "", 0), ans)
    IN ResourceServiceRead(tagged, ans)

resourceServiceCreate(run, ans) ==
    LET d == run.rd
        params == Do(run, Call("GetServicePlanParametersFromSchema", "", 0), ans)
        sized == IF GetOkString(d.disk_space)
                 THEN [run EXCEPT !.diskSpace = ConvertToDiskSpaceMB(d.disk_space)]
                 ELSE IF ~Running(params) THEN params
                 ELSE IF GetOkString(d.additional_disk_space)
                      THEN [params EXCEPT !.diskSpace = params.remote.DiskSizeMBDefault
                                + ConvertToDiskSpaceMB(d.additional_disk_space)]
                      ELSE [params EXCEPT !.diskSpace = params.remote.DiskSizeMBDefault]
        vpcID == Do(sized, Call("GetProjectVPCIdPointer", "", 0), ans)
        cuc == Do(vpcID, Call("apiconvert.ToAPI", "", 0), ans)
        created == Provision(Do(cuc, Call("Services.Create", "", cuc.diskSpace), ans), TRUE)
        waited == Do(created, Call("WaitForServiceCreation", "", 0), ans)
        tagged == Do(waited, Call("ServiceTags.Set", "", 0), ans)
        named == IF Running(tagged)
                 THEN [tagged EXCEPT !.rd.id = BuildResourceID(<<"project", "service">>)]
                 ELSE tagged
    IN ResourceServiceRead(named, ans)

getDefaultDiskSpaceIfNotSet(run, ans) ==
    LET d == run.rd
        err == Answer(ans, Call("GetServicePlanParametersFromSchema", "", 0))
        params == Log(run, Call("GetServicePlanParametersFromSchema", "", 0), err)
    IN IF ~GetOkString(d.disk_space)
       THEN IF err # NoErr
            THEN IF IsNotFound(err) THEN [params EXCEPT !.diskSpace = 0]
                 ELSE Return(params, "error")
            ELSE IF GetOkString(d.additional_disk_space)
                 THEN [params EXCEPT !.diskSpace = params.remote.DiskSizeMBDefault
                           + ConvertToDiskSpaceMB(d.additional_disk_space)]
                 ELSE [params EXCEPT !.diskSpace = params.remote.DiskSizeMBDefault]
       ELSE [run EXCEPT !.diskSpace = ConvertToDiskSpaceMB(d.disk_space)]

(* ResourceServiceUpdate with the dissociation moved before the update *)
ResourceServiceUpdateDissociateFirst(run, ans) ==
    LET diskSpace == getDefaultDiskSpaceIfNotSet(run, ans)
        split == Split(diskSpace, 2)
        diff == Do(split, Call("DiffStaticIps", "", 0), ans)
        associated == DoEach(diff, "StaticIPs.Associate", run.rd.ass, ans)
        dissociated == DoEach(associated, "StaticIPs.Dissociate", run.rd.dis, ans)
        vpcID == Do(dissociated, Call("GetProjectVPCIdPointer", "", 0), ans)
        cuc == Do(vpcID, Call("apiconvert.ToAPI", "", 0), ans)
        updated == Provision(Do(cuc, Call("Services.Update", "", cuc.diskSpace), ans), FALSE)
        waited == Do(updated, Call("WaitForServiceUpdate", "", 0), ans)
        tagged == Do(waited, Call("ServiceTags.Set", "", 0), ans)
    IN ResourceServiceRead(tagged, ans)

ResourceServiceUpdate(run, ans) ==
    LET diskSpace == getDefaultDiskSpaceIfNotSet(run, ans)
        split == Split(diskSpace, 2)
        diff == Do(split, Call("DiffStaticIps", "", 0), ans)
        ass == run.rd.ass
        dis == run.rd.dis
        associated == DoEach(diff, "StaticIPs.Associate", ass, ans)
        vpcID == Do(associated, Call("GetProjectVPCIdPointer", "", 0), ans)
        cuc == Do(vpcID, Call("apiconvert.ToAPI", "", 0), ans)
        updated == Provision(Do(cuc, Call("Services.Update", "", cuc.diskSpace), ans), FALSE)
        waited == Do(updated, Call("WaitForServiceUpdate", "", 0), ans)
        dissociated ==
            IF Len(dis) > 0
            THEN Do(DoEach(waited, "StaticIPs.Dissociate", dis, ans),
                    Call("WaitStaticIpsDissassociation", "", 0), ans)
            ELSE waited
        tagged == Do(dissociated, Call("ServiceTags.Set", "", 0), ans)
    IN ResourceServiceRead(tagged, ans)

(* ResourceServiceDelete returning on every error of Services.Delete *)
ResourceServiceDeleteStrict(run, ans) ==
    LET split == Split(run, 2)
        err == Answer(ans, Call("Services.Delete", "", 0))
        deleted == Log(split, Call("Services.Delete", "", 0), err)
    IN IF ~Running(split) THEN split
       ELSE IF err # NoErr THEN Return(deleted, "error")
       ELSE Return(Do(deleted, Call("WaitForDeletion", "", 0), ans), "nil")

ResourceServiceDelete(run, ans) ==
    LET split == Split(run, 2)
        err == Answer(ans, Call("Services.Delete", "", 0))
        deleted == Log(split, Call("Services.Delete", "", 0), err)
    IN IF ~Running(split) THEN split
       ELSE IF err # NoErr /\ ~IsNotFound(err) THEN Return(deleted, "error")
       ELSE Return(Do(deleted, Call("WaitForDeletion", "", 0), ans), "nil")

ResourceServiceUserRead(run, ans) ==
    LET split == Split(run, 3)
        err == Answer(ans, Call("ServiceUsers.Get", "", 0))
        got == Log(split, Call("ServiceUsers.Get", "", 0), err)
        handled == ResourceReadHandleNotFound(err, got.rd)
        copied == Do(got, Call("CopyServiceUserPropertiesFromAPIResponseToTerraform", "", 0), ans)
    IN IF ~Running(split) THEN split
       ELSE IF err # NoErr
            THEN \* diag.FromErr: no diagnostics for a nil error
                 Return([got EXCEPT !.rd = handled.rd],
                        IF handled.err = NoErr THEN "nil" ELSE "error")
            ELSE Return(copied, "nil")

(* ResourceServiceUserCreate with d.SetId moved before the password update *)
ResourceServiceUserCreateIdFirst(run, ans) ==
    LET created == Do(run, Call("ServiceUsers.Create", "", 0), ans)
        named == IF Running(created)
                 THEN [created EXCEPT !.rd.id =
                           BuildResourceID(<<"project", "service", "username">>)]
                 ELSE created
        updated == IF run.rd.password # ""
                   THEN Do(named, Call("ServiceUsers.Update", "", 0), ans)
                   ELSE named
    IN ResourceServiceUserRead(updated, ans)

ResourceServiceUserCreate(run, ans) ==
    LET created == Do(run, Call("ServiceUsers.Create", "", 0), ans)
        updated == IF run.rd.password # ""
                   THEN Do(created, Call("ServiceUsers.Update", "", 0), ans)
                   ELSE created
        named == IF Running(updated)
                 THEN [updated EXCEPT !.rd.id =
                           BuildResourceID(<<"project", "service", "username">>)]
                 ELSE updated
    IN ResourceServiceUserRead(named, ans)

(* the calls a handler can issue, as the keys of the environment's answers *)
ApiKeys(name, d) ==
    LET Keys(names) == {<<n, "">> : n \in names}
        IpKeys(n, ips) == {<<n, ips[i]>> : i \in DOMAIN ips}
        read == Keys({"Services.Get", "GetServicePlanParametersFromServiceResponse",
                      "CurrentlyAllocatedStaticIps", "ServiceTags.Get"})
        userRead == Keys({"ServiceUsers.Get",
                          "CopyServiceUserPropertiesFromAPIResponseToTerraform"})
    IN CASE name = "resourceServiceCreate" ->
                Keys({"GetServicePlanParametersFromSchema", "GetProjectVPCIdPointer",
                      "apiconvert.ToAPI", "Services.Create", "WaitForServiceCreation",
                      "ServiceTags.Set"}) \cup read
         [] name = "ResourceServiceUpdate" ->
                Keys({"GetServicePlanParametersFromSchema", "DiffStaticIps",
                      "GetProjectVPCIdPointer", "apiconvert.ToAPI", "Services.Update",
                      "WaitForServiceUpdate", "WaitStaticIpsDissassociation",
                      "ServiceTags.Set"})
                \cup IpKeys("StaticIPs.Associate", d.ass)
                \cup IpKeys("StaticIPs.Dissociate", d.dis)
                \cup read
         [] name = "ResourceServiceRead" -> read
         [] name = "ResourceServiceDelete" -> Keys({"Services.Delete", "WaitForDeletion"})
         [] name = "ResourceServiceUserCreate" ->
                Keys({"ServiceUsers.Create", "ServiceUsers.Update"}) \cup userRead
         [] name = "ResourceServiceUserRead" -> userRead

(* Inputs: the resource data terraform hands to a handler.  A resource     *)
(* without an ID is the new one a create handler receives; "ass" and "dis" *)
(* are the addresses DiffStaticIps finds to associate and to dissociate.   *)
ResourceData(resource, id, ds, ads, password, ass, dis) ==
    [resource |-> resource, id |-> id, isNew |-> (id = NoId),
     disk_space |-> ds, additional_disk_space |-> ads,
     disk_space_used |-> NoSize, disk_space_default |-> NoSize,
     password |-> password, ass |-> ass, dis |-> dis]

Resources ==
    {ResourceData("service", id, ds, ads, "", ass, dis) :
        id \in {NoId, BuildResourceID(<<"project", "service">>)},
        ds \in {NoSize, Size(30 * MiB + 1)},
        ads \in {NoSize, Size(5 * MiB)},
        ass \in {<<>>, <<"ip1">>, <<"ip1", "ip2">>},
        dis \in {<<>>, <<"ip3">>, <<"ip3", "ip4">>}}
    \cup
    {ResourceData("service_user", id, NoSize, NoSize, password, <<>>, <<>>) :
        id \in {NoId, BuildResourceID(<<"project", "service", "username">>)},
        password \in {"", "secret"}}

ServiceInit ==
    /\ mode = "idle"
    /\ phase = "idle"
    /\ isNew = FALSE
    /\ config = CtyNull
    /\ store = EmptyMap
    /\ changed = {}
    /\ sent = Nil
    /\ received = Nil
    /\ dto = Nil
    /\ out = NoOutcome
    /\ rd \in Resources
    /\ remote \in {[DiskSpaceMB |-> mb, DiskSizeMBDefault |-> def] :
                        mb \in {0, 25}, def \in {0, 20}}
    /\ calls = <<>>
    /\ diags = "none"
    /\ handler = "none"

Finish(run, name) ==
    /\ rd' = run.rd
    /\ remote' = run.remote
    /\ calls' = run.calls
    /\ diags' = run.diags
    /\ handler' = name
    /\ UNCHANGED <<mode, phase, isNew, config, store, changed, sent, received, dto, out>>

ServiceCreate ==
    /\ handler = "none"
    /\ rd.resource = "service"
    /\ rd.id = NoId
    /\ \E ans \in Answers(ApiKeys("resourceServiceCreate", rd)) :
        Finish(resourceServiceCreate(Start(rd, remote), ans), "resourceServiceCreate")

ServiceRead ==
    /\ handler \in {"none", "resourceServiceCreate", "ResourceServiceUpdate"}
    /\ diags # "error"
    /\ rd.resource = "service"
    /\ rd.id # NoId
    /\ \E ans \in Answers(ApiKeys("ResourceServiceRead", rd)) :
        Finish(ResourceServiceRead(Start([rd EXCEPT !.isNew = FALSE], remote), ans),
               "ResourceServiceRead")

ServiceUpdate ==
    /\ handler = "none"
    /\ rd.resource = "service"
    /\ rd.id # NoId
    /\ \E ans \in Answers(ApiKeys("ResourceServiceUpdate", rd)) :
        Finish(ResourceServiceUpdate(Start(rd, remote), ans), "ResourceServiceUpdate")

ServiceDelete ==
    /\ handler = "none"
    /\ rd.resource = "service"
    /\ rd.id # NoId
    /\ \E ans \in Answers(ApiKeys("ResourceServiceDelete", rd)) :
        Finish(ResourceServiceDelete(Start(rd, remote), ans), "ResourceServiceDelete")

ServiceUserCreate ==
    /\ handler = "none"
    /\ rd.resource = "service_user"
    /\ rd.id = NoId
    /\ \E ans \in Answers(ApiKeys("ResourceServiceUserCreate", rd)) :
        Finish(ResourceServiceUserCreate(Start(rd, remote), ans),
               "ResourceServiceUserCreate")

ServiceUserRead ==
    /\ handler \in {"none", "ResourceServiceUserCreate"}
    /\ diags # "error"
    /\ rd.resource = "service_user"
    /\ rd.id # NoId
    /\ \E ans \in Answers(ApiKeys("ResourceServiceUserRead", rd)) :
        Finish(ResourceServiceUserRead(Start([rd EXCEPT !.isNew = FALSE], remote), ans),
               "ResourceServiceUserRead")

ServiceNext ==
    \/ ServiceCreate
    \/ ServiceRead
    \/ ServiceUpdate
    \/ ServiceDelete
    \/ ServiceUserCreate
    \/ ServiceUserRead

ServiceSpec == ServiceInit /\ [][ServiceNext]_vars



----------------------------------------------------------------------------
(* Properties *)

Written == mode = "write" /\ phase # "start"
Flattened == phase = "flattened"

(* The tree Flatten returned: the only element of the list, nil if none *)
Tree == IF out.st = "ok" /\ out.v.k = "slice" THEN out.v.l[1] ELSE Nil

AliasGroupKeys ==
    {"ip_filter", "ip_filter_string", "ip_filter_object",
     "namespaces", "namespaces_string", "namespaces_object"}

(* The scalar fields the configuration declares outside the alias groups,  *)
(* at the root and inside the declared elements of object lists.           *)
RECURSIVE DeclaredLeaves(_, _, _)
DeclaredLeaves(fields, cfg, path) ==
    IF IsNull(cfg) THEN {}
    ELSE UNION {
        LET f == fields[key]
            c == cfg.m[key]
            p == Append(path, key)
        IN IF key \in AliasGroupKeys \/ IsNull(c) THEN {}
           ELSE IF f.type \notin {"set", "list"}
                THEN {[path |-> p, type |-> f.type, forceNew |-> f.forceNew]}
           ELSE IF f.ek = "resource"
                THEN UNION {DeclaredLeaves(f.fields, c.l[i], Append(p, IndexText(i))) :
                                i \in DOMAIN c.l}
           ELSE {}
        : key \in DOMAIN fields}

Leaves == DeclaredLeaves(RootSchema, config, <<>>)

RoundTrips(leaf) == Lookup(Tree, leaf.path) = ResourceGet(leaf.path, leaf.type)

IpFilterSiblingsQuiet ==
    \A key \in {"ip_filter_string", "ip_filter_object"} :
        IsAbsent(config.m[key]) /\ <<key>> \notin changed

(* C2: a set field declared as an explicit empty sequence is in the DTO    *)
(* of Expand as the empty array, whether or not its path changed.          *)
C2_EmptySetEmitted ==
    (/\ Written
     /\ ~IsNull(config)
     /\ config.m["ip_filter"] = CtyList(<<>>)
     /\ IpFilterSiblingsQuiet)
    => (MapHas(sent, "ip_filter") /\ sent.m["ip_filter"] = Slice(<<>>))

(* The key of the DTO a field at a path of the configuration goes to *)
DtoNameAt(path) ==
    IF \E a \in aliasFieldsMap : a.path = path
    THEN (CHOOSE a \in aliasFieldsMap : a.path = path).to
    ELSE path[Len(path)]

(* absent from the configuration and unchanged in the store *)
Untouched(cfg, path) == IsAbsent(cfg) /\ path \notin changed

(* The DTO object data, expanded from cfg, has no key that only untouched  *)
(* fields go to, nor have the objects below it.                            *)
RECURSIVE OnlyTouched(_, _, _, _)
OnlyTouched(fields, cfg, path, data) ==
    \A key \in DOMAIN fields :
        LET cfgOf(other) == IF IsNull(cfg) THEN CtyNull ELSE cfg.m[other]
            p == Append(path, key)
            name == DtoNameAt(p)
            group == {other \in DOMAIN fields : DtoNameAt(Append(path, other)) = name}
            touched == {other \in group :
                            ~Untouched(cfgOf(other), Append(path, other))}
            elems == IF data.m[name].k = "map" THEN <<data.m[name]>>
                     ELSE data.m[name].l
        IN /\ touched = {} => ~MapHas(data, name)
           /\ (touched = {key} /\ fields[key].ek = "resource" /\ MapHas(data, name)) =>
                \A i \in DOMAIN elems :
                    /\ ~IsNull(cfgOf(key))
                    /\ i \in DOMAIN cfgOf(key).l
                    /\ OnlyTouched(fields[key].fields, cfgOf(key).l[i],
                                   Append(p, IndexText(i)), elems[i])

(* C3: the DTO of Expand has no key for a field that is absent from the    *)
(* configuration and unchanged in the store, at any depth.                 *)
C3_NoUntouchedKey == Written => OnlyTouched(RootSchema, config, <<>>, sent)

(* Expand sent a singleton object whose port the store holds from the API  *)
(* and the configuration does not declare                                  *)
C3_Witness ==
    /\ Written
    /\ MapHas(sent, "migration")
    /\ ~IsZero(Lookup(store, <<"migration", "0", "port">>))
    /\ IsNull(config.m["migration"].l[1].m["port"])
    /\ <<"migration">> \notin changed

(* the attributes of the element Expand emits: declared and not skipped *)
Populated(fields, elem) ==
    \E key \in DOMAIN fields :
        /\ ~IsAbsent(elem.m[key])
        /\ ~(fields[key].forceNew /\ ~isNew)

MigrationPopulated ==
    /\ ~IsNull(config)
    /\ Len(config.m["migration"].l) = 1
    /\ Populated(MigrationSchema, config.m["migration"].l[1])

MappingPopulated ==
    /\ ~IsNull(config)
    /\ Len(config.m["rules"].l) = 1
    /\ Len(config.m["rules"].l[1].m["mapping"].l) = 1
    /\ Populated(MappingSchema, config.m["rules"].l[1].m["mapping"].l[1])

IsOneElement(x) == x.k = "slice" /\ Len(x.l) = 1

StringsForObjectState ==
    /\ Flattened
    /\ MapHas(received, "ip_filter")
    /\ received.m["ip_filter"].k = "slice"
    /\ Len(received.m["ip_filter"].l) > 0
    /\ \A i \in DOMAIN received.m["ip_filter"].l :
            received.m["ip_filter"].l[i].k = "string"
    /\ GetOk(<<"ip_filter_object">>).ok
    /\ ~GetOk(<<"ip_filter_string">>).ok

CreateOnlyNames == {"admin_username", "admin_password"}

(* C6: when the DTO handed to Flatten has no key for a create-only field   *)
(* and the store holds a non-empty value for it, the flattened tree        *)
(* carries the field with the value of the store.                          *)
C6_CreateOnlyCarriedOver ==
    \A key \in CreateOnlyNames :
        (/\ Flattened /\ out.st = "ok"
         /\ ~MapHas(received, key)
         /\ GetOk(<<key>>).ok)
        => Lookup(Tree, <<key>>) = GetOk(<<key>>).val

C6_Witness ==
    /\ Flattened /\ out.st = "ok" /\ mode = "read"
    /\ ~MapHas(received, "admin_password")
    /\ GetOk(<<"admin_password">>).ok
    /\ Lookup(Tree, <<"admin_password">>) = GoString("secret123")

(* C7: when the DTO carries a create-only field, the flattened value of    *)
(* the field is the value of the DTO, not the value of the store.          *)
C7_DtoValueKept ==
    \A key \in CreateOnlyNames :
        (/\ Flattened /\ out.st = "ok"
         /\ MapHas(received, key)
         /\ received.m[key].k = "string")
        => Lookup(Tree, <<key>>) = received.m[key]

(* the keys of a list of objects, in the order of the list *)
KeysOf(x, sortBy) == [i \in DOMAIN x.l |-> KeyOf(x.l[i], sortBy)]

IsObjects(x) ==
    /\ x.k = "slice" /\ Len(x.l) > 0
    /\ \A i \in DOMAIN x.l : x.l[i].k = "map"

(* The DTO list holds the objects of the state's list, one for each key *)
SameKeys(x, prior, sortBy) ==
    /\ IsObjects(x) /\ IsObjects(prior)
    /\ Len(x.l) = Len(prior.l)
    /\ Range(KeysOf(x, sortBy)) = Range(KeysOf(prior, sortBy))
    /\ Cardinality(Range(KeysOf(prior, sortBy))) = Len(prior.l)

NamespacesObjectPath == <<"rules", "0", "mapping", "0", "namespaces_object">>

(* C8: an aliased list of objects the DTO returns in another order than    *)
(* the state holds under the _object alias comes out of Flatten in the     *)
(* order of the state.                                                     *)
C8_StateOrderKept ==
    /\ (/\ Flattened /\ out.st = "ok"
        /\ ~GetOk(<<"ip_filter_string">>).ok
        /\ SameKeys(Lookup(received, <<"ip_filter">>),
                    Lookup(store, <<"ip_filter_object">>), "network"))
       => KeysOf(Lookup(Tree, <<"ip_filter_object">>), "network")
            = KeysOf(Lookup(store, <<"ip_filter_object">>), "network")
    /\ (/\ Flattened /\ out.st = "ok"
        /\ ~GetOk(<<"rules", "0", "mapping", "0", "namespaces_string">>).ok
        /\ SameKeys(Lookup(received, <<"rules", "0", "mapping", "namespaces">>),
                    Lookup(store, NamespacesObjectPath), "name"))
       => KeysOf(Lookup(Tree, NamespacesObjectPath), "name")
            = KeysOf(Lookup(store, NamespacesObjectPath), "name")

(* the state holds [b, a], the DTO came with [a, b], the tree has [b, a] *)
C8_Witness ==
    /\ Flattened /\ out.st = "ok" /\ mode = "read"
    /\ IsObjects(Lookup(received, <<"ip_filter">>))
    /\ KeysOf(Lookup(received, <<"ip_filter">>), "network")
            = <<GoString("a"), GoString("b")>>
    /\ IsObjects(Lookup(store, <<"ip_filter_object">>))
    /\ KeysOf(Lookup(store, <<"ip_filter_object">>), "network")
            = <<GoString("b"), GoString("a")>>
    /\ KeysOf(Lookup(Tree, <<"ip_filter_object">>), "network")
            = <<GoString("b"), GoString("a")>>

(* The object data of the DTO has no key of a ForceNew field of the        *)
(* schema, nor have the objects below it.  A key of the DTO stands for     *)
(* every field of the schema that goes to it.                              *)
RECURSIVE NoForceNewKey(_, _, _)
NoForceNewKey(fields, path, data) ==
    \A key \in DOMAIN fields :
        LET name == DtoNameAt(Append(path, key))
            elems == IF data.m[name].k = "map" THEN <<data.m[name]>>
                     ELSE IF data.m[name].k = "slice" THEN data.m[name].l
                     ELSE <<>>
        IN MapHas(data, name) =>
            /\ ~fields[key].forceNew
            /\ fields[key].ek = "resource" =>
                \A i \in DOMAIN elems :
                    elems[i].k = "map" =>
                        NoForceNewKey(fields[key].fields,
                                      Append(Append(path, key), IndexText(i)), elems[i])

ForceNewLeaves == {leaf \in Leaves : leaf.forceNew}

(* The place in the DTO of a field at a path of the configuration: the     *)
(* element of a singleton object has no index in the DTO.                  *)
DtoPath(path) ==
    IF Len(path) = 3 /\ path[1] = "migration" THEN <<path[1], path[3]>> ELSE path

(* C9: for a resource that exists the DTO of Expand has no key of a        *)
(* ForceNew field at any depth; for a new resource a declared ForceNew     *)
(* field is in the DTO with its value, like any other field.               *)
C9_ForceNewOnlyOnCreate ==
    /\ (Written /\ ~isNew) => NoForceNewKey(RootSchema, <<>>, sent)
    /\ (Written /\ isNew) =>
            \A leaf \in ForceNewLeaves :
                Lookup(sent, DtoPath(leaf.path)) = ResourceGet(leaf.path, leaf.type)

(* an existing resource whose singleton object declares a ForceNew field,  *)
(* and the object was sent                                                 *)
C9_Witness ==
    /\ Written /\ ~isNew
    /\ MapHas(sent, "migration")
    /\ \E leaf \in ForceNewLeaves : Len(leaf.path) > 1

AliasNames ==
    {"ip_filter_string", "ip_filter_object", "namespaces_string", "namespaces_object"}

(* the object of the DTO the namespaces are in, nil if there is none *)
SentMapping == Lookup(sent, <<"rules", "0", "mapping">>)

(* declared, and the other members of its alias group are absent and      *)
(* unchanged                                                               *)
OnlyDeclared(cfg, path, key, group) ==
    /\ ~IsAbsent(cfg.m[key])
    /\ \A other \in group \ {key} : Untouched(cfg.m[other], Append(path, other))

MappingAt == <<"rules", "0", "mapping", "0">>

DeclaredMapping == config.m["rules"].l[1].m["mapping"].l[1]

HasDeclaredMapping ==
    /\ ~IsNull(config)
    /\ Len(config.m["rules"].l) = 1
    /\ Len(config.m["rules"].l[1].m["mapping"].l) = 1

IpFilterGroup == {"ip_filter", "ip_filter_string", "ip_filter_object"}
NamespacesGroup == {"namespaces", "namespaces_string", "namespaces_object"}

(* C10: the DTO of Expand names an aliased field by its logical name only: *)
(* no alias key is left at the root or in rules.0.mapping, and what is     *)
(* declared under an alias, the rest of its group absent and unchanged, is *)
(* under the logical name.                                                 *)
C10_LogicalNamesOnly ==
    Written =>
        /\ \A name \in AliasNames : ~MapHas(sent, name) /\ ~MapHas(SentMapping, name)
        /\ ~IsNull(config) =>
            /\ OnlyDeclared(config, <<>>, "ip_filter_string", IpFilterGroup) =>
                    /\ MapHas(sent, "ip_filter")
                    /\ Range(sent.m["ip_filter"].l)
                            = ResourceGet(<<"ip_filter_string">>, "set").e
            /\ OnlyDeclared(config, <<>>, "ip_filter_object", IpFilterGroup) =>
                    /\ MapHas(sent, "ip_filter")
                    /\ sent.m["ip_filter"] = ResourceGet(<<"ip_filter_object">>, "list")
        /\ HasDeclaredMapping =>
            /\ OnlyDeclared(DeclaredMapping, MappingAt, "namespaces_string", NamespacesGroup) =>
                    /\ MapHas(SentMapping, "namespaces")
                    /\ SentMapping.m["namespaces"]
                            = ResourceGet(NamespacesPath("namespaces_string"), "list")
            /\ OnlyDeclared(DeclaredMapping, MappingAt, "namespaces_object", NamespacesGroup) =>
                    /\ MapHas(SentMapping, "namespaces")
                    /\ SentMapping.m["namespaces"]
                            = ResourceGet(NamespacesPath("namespaces_object"), "list")

(* objects declared under namespaces_object were sent under namespaces *)
C10_Witness ==
    /\ Written
    /\ HasDeclaredMapping
    /\ OnlyDeclared(DeclaredMapping, MappingAt, "namespaces_object", NamespacesGroup)
    /\ MapHas(SentMapping, "namespaces")
    /\ IsObjects(SentMapping.m["namespaces"])

(* the members of the group that are keys of the object x *)
GroupKeys(x, group) == {name \in group : MapHas(x, name)}

ReceivedMapping == drillKey(received, MappingPath)

(* C11: when the DTO carries an aliased field under its logical name, the  *)
(* field is under exactly one name of its group after the alias step of    *)
(* Flatten, for every state, and the flattened tree populates at most one  *)
(* name of the group.                                                      *)
C11_OneNameOfGroup ==
    /\ (Flattened /\ MapHas(received, "ip_filter")) =>
            Cardinality(GroupKeys(dto, IpFilterGroup)) = 1
    /\ (Flattened /\ received.k = "map" /\ ReceivedMapping.ok
            /\ MapHas(ReceivedMapping.val, "namespaces")) =>
            Cardinality(GroupKeys(Lookup(dto, MappingPath), NamespacesGroup)) = 1
    /\ (Flattened /\ out.st = "ok") =>
            /\ Cardinality(GroupKeys(Tree, IpFilterGroup)) <= 1
            /\ Cardinality(GroupKeys(Lookup(Tree, MappingAt), NamespacesGroup)) <= 1

(* the state holds both aliases and the DTO objects went to one of them *)
C11_Witness ==
    /\ Flattened
    /\ GetOk(<<"ip_filter_string">>).ok /\ GetOk(<<"ip_filter_object">>).ok
    /\ IsObjects(Lookup(received, <<"ip_filter">>))
    /\ GroupKeys(dto, IpFilterGroup) = {"ip_filter_string"}

(* the kind a value of the type has in a DTO decoded from JSON *)
WireKind(type) == IF type \in {"int", "float"} THEN "jnum" ELSE type

(* The paths of the fields of the object data whose value is not of the    *)
(* kind the schema declares; a path is the keys from the root.             *)
RECURSIVE BadPaths(_, _)
BadPaths(fields, data) ==
    UNION {
        LET f == fields[key]
            x == data.m[key]
            below(obj) == {<<key>> \o p : p \in BadPaths(f.fields, obj)}
        IN IF f.type \notin {"set", "list"}
           THEN (IF x.k = WireKind(f.type) THEN {} ELSE {<<key>>})
           ELSE IF f.ek = "schema"
           THEN (IF x.k = "slice" /\ \A i \in DOMAIN x.l : x.l[i].k = WireKind(f.et)
                 THEN {} ELSE {<<key>>})
           ELSE IF x.k = "map" THEN below(x)
           ELSE IF x.k = "slice" /\ \A i \in DOMAIN x.l : x.l[i].k = "map"
                THEN UNION {below(x.l[i]) : i \in DOMAIN x.l}
           ELSE {<<key>>}
        : key \in {j \in DOMAIN fields : MapHas(data, j) /\ ~IsNil(data.m[j])}}

(* C12: when a value of the DTO is not of the kind the schema declares at  *)
(* its path, the Flatten call ends with a returned error that names the    *)
(* path of a failing field, and in no other way.                           *)
C12_MismatchIsError ==
    (Flattened /\ BadPaths(RootSchema, dto) # {}) =>
        (out.st = "err" /\ out.path \in BadPaths(RootSchema, dto))

(* the state holds two aliases of one group *)
BothIpFilterAliases ==
    GetOk(<<"ip_filter_string">>).ok /\ GetOk(<<"ip_filter_object">>).ok

BothNamespacesAliases ==
    /\ GetOk(NamespacesPath("namespaces_string")).ok
    /\ GetOk(NamespacesPath("namespaces_object")).ok

(* a non-empty array *)
CarriesList(x) == x.k = "slice" /\ Len(x.l) > 0

(* C13: when the state holds more than one alias of a group, the           *)
(* conversion call of a DTO that carries the field fails instead of        *)
(* returning a result.                                                     *)
C13_AmbiguityIsFatal ==
    /\ (Flattened /\ BothIpFilterAliases
            /\ CarriesList(Lookup(received, <<"ip_filter">>)))
            => out.st \in {"err", "panic"}
    /\ (Flattened /\ BothNamespacesAliases
            /\ CarriesList(Lookup(received, <<"rules", "0", "mapping", "namespaces">>)))
            => out.st \in {"err", "panic"}

(* The object data has no populated field: each of its keys is unknown to  *)
(* the schema, null, or an object or a list of objects with no populated   *)
(* field.                                                                  *)
RECURSIVE IsEmptyObj(_, _)
IsEmptyObj(fields, data) ==
    \A key \in {j \in DOMAIN fields : MapHas(data, j) /\ ~IsNil(data.m[j])} :
        LET f == fields[key]
            x == data.m[key]
        IN /\ f.type \in {"set", "list"} /\ f.ek = "resource"
           /\ \/ x.k = "map" /\ IsEmptyObj(f.fields, x)
              \/ /\ x.k = "slice"
                 /\ \A i \in DOMAIN x.l :
                        x.l[i].k = "map" /\ IsEmptyObj(f.fields, x.l[i])

(* C14: Flatten returns nil, and no error, whenever the DTO flattens to    *)
(* zero populated fields.                                                  *)
C14_EmptyIsNil ==
    (Flattened /\ IsEmptyObj(RootSchema, dto)) => out = Returned(Nil)

(* In the tree object obj every MaxItems == 1 field holds at most one      *)
(* element, and so in the objects below it.                                *)
RECURSIVE SingletonsHold(_, _)
SingletonsHold(fields, obj) ==
    \A key \in {j \in DOMAIN fields : MapHas(obj, j)} :
        LET f == fields[key]
            x == obj.m[key]
        IN (f.type = "list" /\ f.ek = "resource" /\ x.k = "slice") =>
            /\ f.maxItems = 1 => Len(x.l) <= 1
            /\ \A i \in DOMAIN x.l : SingletonsHold(f.fields, x.l[i])

(* C15: in every tree Flatten returns, each MaxItems == 1 field holds 0 or *)
(* 1 elements, whatever the DTO holds for the field.                       *)
C15_AtMostOneElement ==
    (Flattened /\ out.st = "ok") => SingletonsHold(RootSchema, Tree)

(* how a call ended, all returned errors alike *)
Ending(o) == [st |-> o.st, v |-> o.v]

(* the schema of the field at a path of keys *)
RECURSIVE SchemaAt(_, _)
SchemaAt(fields, path) ==
    IF Len(path) = 1 THEN fields[Head(path)]
    ELSE SchemaAt(fields[Head(path)].fields, Tail(path))

(* the errors a call with these inputs can return all come from the        *)
(* parsing of a json.Number                                                *)
OnlyNumberErrors ==
    \A o \in Flatten(received) :
        o.st = "err" => SchemaAt(RootSchema, o.path).type \in {"int", "float"}

(* C16: two Flatten calls with equal inputs end alike, with equal trees or *)
(* both with an error, whatever the iteration order over the fields of the *)
(* schema: the call that was made ends as every call with its inputs can.  *)
C16_FlattenDeterministic ==
    (Flattened /\ OnlyNumberErrors) =>
        \A o \in Flatten(received) : Ending(o) = Ending(out)

(* C17: after a Flatten call the DTO map of the caller holds the keys and  *)
(* values it held before the call.                                         *)
C17_DtoUntouched == Flattened => dto = received

SetFields == {"ip_filter", "ip_filter_string"}

RootCfg(key) == IF IsNull(config) THEN CtyNull ELSE config.m[key]

(* a set field that is not in the configuration, the other members of its  *)
(* alias group absent and unchanged                                        *)
AbsentSet(key) ==
    /\ Written
    /\ IsNull(RootCfg(key))
    /\ \A other \in IpFilterGroup \ {key} : Untouched(RootCfg(other), <<other>>)

(* C18, as the code has it: a set field absent from the configuration      *)
(* gives no key when the store reports no change at its path, and the      *)
(* empty array when it reports one, which clears the list of the API.      *)
C18_AbsentSetClearsOnChange ==
    \A key \in SetFields :
        AbsentSet(key) =>
            IF <<key>> \in changed
            THEN MapHas(sent, "ip_filter") /\ sent.m["ip_filter"] = Slice(<<>>)
            ELSE ~MapHas(sent, "ip_filter")

(* C18 as stated: an absent set field gives no key, changed or not *)
C18_AbsentSetNoKey ==
    \A key \in SetFields : AbsentSet(key) => ~MapHas(sent, "ip_filter")

(* the user removed ip_filter and Expand sent the empty array *)
C18_Witness ==
    /\ AbsentSet("ip_filter")
    /\ <<"ip_filter">> \in changed
    /\ MapHas(sent, "ip_filter") /\ sent.m["ip_filter"] = Slice(<<>>)

(* no object without keys below x *)
RECURSIVE NoEmptyObject(_)
NoEmptyObject(x) ==
    CASE x.k = "map" -> \A key \in DOMAIN x.m :
                            x.m[key] # EmptyMap /\ NoEmptyObject(x.m[key])
      [] x.k = "slice" -> \A i \in DOMAIN x.l :
                            x.l[i] # EmptyMap /\ NoEmptyObject(x.l[i])
      [] OTHER -> TRUE

(* C19: Expand drops every declared element of a list of objects whose     *)
(* expansion is empty, so the DTO holds no empty object: a MaxItems == 1   *)
(* field whose only element expands to nothing has no key.                 *)
C19_EmptyElementsDropped == Written => NoEmptyObject(sent)

(* the place of x in the list of the stored set *)
PlaceIn(list, x) == CHOOSE i \in DOMAIN list : list[i] = x

(* The array holds the stored elements whose string form is declared, each *)
(* once, in the order of the stored set.                                   *)
IsDeclaredPart(array, declared, stored) ==
    LET list == SetList(stored.e)
    IN /\ array.k = "slice"
       /\ Range(array.l) =
            {x \in stored.e : \E i \in DOMAIN declared.l : declared.l[i].s = GoSprint(x)}
       /\ \A i, j \in DOMAIN array.l :
            i < j => PlaceIn(list, array.l[i]) < PlaceIn(list, array.l[j])

(* a set field that is in the configuration and in the DTO, the other      *)
(* members of its alias group absent and unchanged                         *)
DeclaredSet(key) ==
    /\ Written
    /\ ~IsNull(RootCfg(key))
    /\ \A other \in IpFilterGroup \ {key} : Untouched(RootCfg(other), <<other>>)
    /\ MapHas(sent, "ip_filter")

IsScalar(schema) == schema.type \notin {"set", "list"}

RootScalars == {key \in DOMAIN RootSchema : IsScalar(RootSchema[key])}

(* the declared scalar is in the DTO with the value of the store *)
Emitted(leaf) ==
    Lookup(sent, DtoPath(leaf.path)) = ResourceGet(leaf.path, leaf.type)

(* no scalar that the configuration does not declare is in the DTO, at the *)
(* root and in the singleton object                                        *)
UndeclaredScalarsLeftOut ==
    /\ \A key \in RootScalars : IsNull(RootCfg(key)) => ~MapHas(sent, key)
    /\ (MapHas(sent, "migration") /\ sent.m["migration"].k = "map") =>
            \A key \in DOMAIN MigrationSchema :
                IsNull(config.m["migration"].l[1].m[key])
                    => ~MapHas(sent.m["migration"], key)

(* C21, as the code has it: a scalar field that Expand does not skip as    *)
(* ForceNew on an existing resource is in the DTO exactly when the         *)
(* configuration declares it, with the value of the store, the zero value  *)
(* included; a scalar that is not declared is never in the DTO.            *)
C21_ScalarIffDeclared ==
    Written =>
        /\ \A leaf \in Leaves : (leaf.forceNew /\ ~isNew) \/ Emitted(leaf)
        /\ UndeclaredScalarsLeftOut

(* C21 as stated: every declared scalar is in the DTO *)
C21_EveryDeclaredScalarEmitted ==
    Written => (UndeclaredScalarsLeftOut /\ \A leaf \in Leaves : Emitted(leaf))

(* a scalar declared with its zero value was sent, and a non-zero value    *)
(* the store holds for an undeclared scalar was not                        *)
C21_Witness ==
    /\ Written
    /\ \E leaf \in Leaves :
            IsZero(ResourceGet(leaf.path, leaf.type)) /\ Emitted(leaf)
    /\ \E key \in RootScalars :
            /\ IsNull(RootCfg(key))
            /\ ~IsZero(Lookup(store, <<key>>))
            /\ ~MapHas(sent, key)

(* the values the store holds for the declared non-null elements of a list *)
(* of scalars, in declared order                                           *)
DeclaredValues(cfg, path, type) ==
    IF IsNull(cfg) THEN <<>>
    ELSE LET idx == SelectSeq([i \in DOMAIN cfg.l |-> i], LAMBDA i : ~IsNull(cfg.l[i]))
         IN [j \in DOMAIN idx |-> ResourceGet(Append(path, IndexText(idx[j])), type)]

RegionsCfg == RootCfg("additional_backup_regions")

(* C22: Expand skips a list of scalars exactly when the configuration does *)
(* not hold it (null or empty) and the store reports no change at its      *)
(* path; otherwise the DTO holds the array of the values of the declared   *)
(* non-null elements in declared order, empty when nothing is declared.    *)
C22_ScalarList ==
    Written =>
        IF IsAbsent(RegionsCfg) /\ <<"additional_backup_regions">> \notin changed
        THEN ~MapHas(sent, "additional_backup_regions")
        ELSE /\ MapHas(sent, "additional_backup_regions")
             /\ sent.m["additional_backup_regions"] =
                    Slice(DeclaredValues(RegionsCfg, <<"additional_backup_regions">>,
                                         "string"))

(* a declared list with a null element went out without it, in order *)
C22_Witness ==
    /\ Written
    /\ ~IsNull(RegionsCfg)
    /\ \E i \in DOMAIN RegionsCfg.l : IsNull(RegionsCfg.l[i])
    /\ sent.m["additional_backup_regions"] = Slice(<<GoString("a")>>)

(* the logical name of an alias group *)
LogicalOf(group) == IF "ip_filter" \in group THEN "ip_filter" ELSE "namespaces"

(* the name of the group the claim puts a field of the DTO under *)
NameFor(x, inStateStr, group) ==
    IF inStateStr THEN AliasName(LogicalOf(group), "_string")
    ELSE IF IsObjects(x) THEN AliasName(LogicalOf(group), "_object")
    ELSE LogicalOf(group)

ObjectsOf(x) ==
    IF x.k = "map" THEN {x}
    ELSE IF x.k = "slice" THEN {x.l[i] : i \in DOMAIN x.l}
    ELSE {}

(* Every key of the tree object t is a key of the schema that the DTO      *)
(* object data holds with a non-null value, and so for the objects of the  *)
(* lists below it.                                                         *)
RECURSIVE KeysFromDto(_, _, _)
KeysFromDto(fields, t, data) ==
    \A key \in DOMAIN t.m :
        /\ key \in DOMAIN fields
        /\ MapHas(data, key) /\ ~IsNil(data.m[key])
        /\ (fields[key].type = "list" /\ fields[key].ek = "resource") =>
                \A i \in DOMAIN t.m[key].l :
                    \E d \in ObjectsOf(data.m[key]) :
                        KeysFromDto(fields[key].fields, t.m[key].l[i], d)

(* every key of the DTO is unknown to the schema or holds null *)
NothingKnown == \A key \in DOMAIN dto.m : key \notin DOMAIN RootSchema \/ IsNil(dto.m[key])

(* C24: every key of an object flattenObj returns is a key of the schema   *)
(* that the DTO holds with a non-null value, at every depth; keys unknown  *)
(* to the schema and keys holding null are passed over without error.      *)
C24_OnlySchemaKeys ==
    /\ (Flattened /\ out.st = "ok" /\ ~IsNil(Tree)) =>
            KeysFromDto(RootSchema, Tree, dto)
    /\ (Flattened /\ NothingKnown) => out = Returned(Nil)
    /\ (Flattened /\ out.st = "err") =>
            (MapHas(dto, out.path[1]) /\ ~IsNil(dto.m[out.path[1]]))

(* the DTO came with a key that is unknown or holds null, and the tree    *)
(* holds keys of the schema only                                           *)
C24_Witness ==
    /\ Flattened /\ out.st = "ok"
    /\ \E key \in DOMAIN received.m :
            key \notin DOMAIN RootSchema \/ IsNil(received.m[key])
    /\ ~IsNil(Tree)
    /\ DOMAIN Tree.m # {}
    /\ KeysFromDto(RootSchema, Tree, dto)

----------------------------------------------------------------------------
(* Properties of the service and service user handlers, under ServiceSpec  *)

Positions(name) == {i \in DOMAIN calls : calls[i].api = name}
Succeeded(i) == calls[i].err = NoErr
FailedCall(name) == \E i \in Positions(name) : ~Succeeded(i)
Ran(name) == handler = name

(* C25: in ResourceServiceUpdate every address to associate is associated  *)
(* before Services.Update is issued; an address is dissociated only after  *)
(* Services.Update succeeded and WaitForServiceUpdate then returned no     *)
(* error; and when an association, the update or the wait failed, nothing  *)
(* is dissociated and the service tags are not set.                        *)
C25_AssociateUpdateDissociate ==
    Ran("ResourceServiceUpdate") =>
        /\ \A u \in Positions("Services.Update") : \A k \in DOMAIN rd.ass :
               \E a \in Positions("StaticIPs.Associate") :
                   a < u /\ calls[a].ip = rd.ass[k] /\ Succeeded(a)
        /\ \A x \in Positions("StaticIPs.Dissociate") :
               \E u \in Positions("Services.Update") :
               \E w \in Positions("WaitForServiceUpdate") :
                   u < w /\ w < x /\ Succeeded(u) /\ Succeeded(w)
        /\ (\/ FailedCall("StaticIPs.Associate")
            \/ FailedCall("Services.Update")
            \/ FailedCall("WaitForServiceUpdate"))
           => /\ Positions("StaticIPs.Dissociate") = {}
              /\ Positions("ServiceTags.Set") = {}

(* an update that associated two addresses and dissociated two *)
C25_Witness ==
    /\ Ran("ResourceServiceUpdate")
    /\ Cardinality(Positions("StaticIPs.Associate")) = 2
    /\ Cardinality(Positions("StaticIPs.Dissociate")) = 2
    /\ Positions("Services.Update") # {}
    /\ diags = "nil"

(* C26: resourceServiceCreate sets the resource ID only after              *)
(* Services.Create, WaitForServiceCreation and ServiceTags.Set succeeded,  *)
(* in that order; when one of them fails the handler returns an error and  *)
(* the resource ID is unset, also when the service was created remotely.   *)
C26_IdAfterCreateWaitTags ==
    Ran("resourceServiceCreate") =>
        /\ rd.id # NoId =>
               \E c \in Positions("Services.Create") :
               \E w \in Positions("WaitForServiceCreation") :
               \E t \in Positions("ServiceTags.Set") :
                   c < w /\ w < t /\ Succeeded(c) /\ Succeeded(w) /\ Succeeded(t)
        /\ (\/ FailedCall("Services.Create")
            \/ FailedCall("WaitForServiceCreation")
            \/ FailedCall("ServiceTags.Set"))
           => diags = "error" /\ rd.id = NoId

(* the service was created, setting its tags failed: an error and no ID *)
C26_Witness ==
    /\ Ran("resourceServiceCreate")
    /\ \E c \in Positions("Services.Create") : Succeeded(c)
    /\ FailedCall("ServiceTags.Set")
    /\ diags = "error"
    /\ rd.id = NoId

(* the ID the resource data holds when the read of a handler starts: the   *)
(* one a create handler has just set, and else the one it came with        *)
IdAtRead ==
    IF handler' = "resourceServiceCreate"
    THEN BuildResourceID(<<"project", "service">>)
    ELSE IF handler' = "ResourceServiceUserCreate"
    THEN BuildResourceID(<<"project", "service", "username">>)
    ELSE rd.id

ReadFailed(i) ==
    /\ calls'[i].api \in {"Services.Get", "ServiceUsers.Get"}
    /\ calls'[i].err # NoErr

NotFoundOnReadStep ==
    \A i \in DOMAIN calls' :
        ReadFailed(i) =>
            IF IsUnknownResource(calls'[i].err) /\ ~rd'.isNew
            THEN rd'.id = NoId /\ diags' = "nil"
            ELSE rd'.id = IdAtRead /\ diags' = "error"

(* C27: when the GET of a read fails with not-found or unknown-role and    *)
(* the resource is not new, the read clears the resource ID and returns no *)
(* error; for a new resource, or for another error, it returns the error   *)
(* and leaves the resource ID as it was.                                   *)
C27_NotFoundOnRead == [][NotFoundOnReadStep]_vars

(* a read of an existing service that the API does not know any more *)
C27_Witness ==
    /\ Ran("ResourceServiceRead")
    /\ \E i \in Positions("Services.Get") : IsNotFound(calls[i].err)
    /\ ~rd.isNew
    /\ rd.id = NoId
    /\ diags = "nil"

(* C28: when Services.Delete answers not-found, ResourceServiceDelete      *)
(* still calls WaitForDeletion and returns what the wait returns, so no    *)
(* error when the wait finds the service gone; on any other error of       *)
(* Services.Delete it returns an error and WaitForDeletion is not called.  *)
C28_DeleteNotFound ==
    Ran("ResourceServiceDelete") =>
        \A i \in Positions("Services.Delete") :
            /\ IsNotFound(calls[i].err) =>
                   \E w \in Positions("WaitForDeletion") :
                       /\ i < w
                       /\ diags = (IF Succeeded(w) THEN "nil" ELSE "error")
            /\ (~Succeeded(i) /\ ~IsNotFound(calls[i].err)) =>
                   /\ diags = "error"
                   /\ Positions("WaitForDeletion") = {}

(* a service already deleted: not-found, the wait, no error *)
C28_Witness ==
    /\ Ran("ResourceServiceDelete")
    /\ \E i \in Positions("Services.Delete") : IsNotFound(calls[i].err)
    /\ \E w \in Positions("WaitForDeletion") : Succeeded(w)
    /\ diags = "nil"

(* C29: ResourceServiceUserCreate issues ServiceUsers.Create first; it     *)
(* issues ServiceUsers.Update after a successful create exactly when a     *)
(* password is configured; it sets the resource ID only when every call    *)
(* issued before succeeded; and when the password update fails it returns  *)
(* an error with the resource ID unset although the user was created.      *)
C29_UserCreateOrder ==
    Ran("ResourceServiceUserCreate") =>
        /\ calls[1].api = "ServiceUsers.Create"
        /\ \A u \in Positions("ServiceUsers.Update") :
               /\ rd.password # ""
               /\ \E c \in Positions("ServiceUsers.Create") : c < u /\ Succeeded(c)
        /\ (rd.password # "" /\ Succeeded(1)) => Positions("ServiceUsers.Update") # {}
        /\ rd.id # NoId =>
               /\ ~FailedCall("ServiceUsers.Create")
               /\ ~FailedCall("ServiceUsers.Update")
        /\ FailedCall("ServiceUsers.Update") =>
               /\ diags = "error"
               /\ rd.id = NoId
               /\ Succeeded(1)

(* the user was created, the password update failed: an error and no ID *)
C29_Witness ==
    /\ Ran("ResourceServiceUserCreate")
    /\ rd.password # ""
    /\ Succeeded(1)
    /\ FailedCall("ServiceUsers.Update")
    /\ diags = "error"
    /\ rd.id = NoId

(* a service configured with additional_disk_space and without disk_space *)
OnlyAdditional(d) ==
    /\ d.resource = "service"
    /\ ~GetOkString(d.disk_space)
    /\ GetOkString(d.additional_disk_space)

(* the disk sizes the step sent with Services.Create or Services.Update *)
SentSizes ==
    {calls'[i].DiskSpaceMB :
        i \in {j \in DOMAIN calls' :
                  calls'[j].api \in {"Services.Create", "Services.Update"}}}

PlanNotFound ==
    \E i \in DOMAIN calls' :
        /\ calls'[i].api = "GetServicePlanParametersFromSchema"
        /\ IsNotFound(calls'[i].err)

(* the read of the step got the service and the parameters of its plan *)
ReadBack ==
    \E i \in DOMAIN calls' :
        /\ calls'[i].api = "GetServicePlanParametersFromServiceResponse"
        /\ calls'[i].err = NoErr

DefaultPlusAdditional ==
    remote.DiskSizeMBDefault + ConvertToDiskSpaceMB(rd.additional_disk_space)

(* what both statements say of the create, of the read-back (which stores  *)
(* a size only when the API reports one other than 0) and of disk_space    *)
DiskSpaceCommon ==
    /\ (handler' = "resourceServiceCreate" /\ OnlyAdditional(rd)) =>
           /\ \A s \in SentSizes : s = DefaultPlusAdditional
           /\ ReadBack => ConvertToDiskSpaceMB(rd'.additional_disk_space)
                              = ConvertToDiskSpaceMB(rd.additional_disk_space)
    /\ (OnlyAdditional(rd) /\ ReadBack) =>
           IF remote'.DiskSpaceMB # 0
           THEN ConvertToDiskSpaceMB(rd'.additional_disk_space)
                    = remote'.DiskSpaceMB - remote'.DiskSizeMBDefault
           ELSE rd'.additional_disk_space = rd.additional_disk_space
    /\ (handler' \in {"resourceServiceCreate", "ResourceServiceUpdate"}
            /\ GetOkString(rd.disk_space)) =>
           \A s \in SentSizes : s = ConvertToDiskSpaceMB(rd.disk_space)

DiskSpaceAsClaimed ==
    /\ DiskSpaceCommon
    /\ (handler' = "ResourceServiceUpdate" /\ OnlyAdditional(rd)) =>
           \A s \in SentSizes : s = DefaultPlusAdditional

DiskSpaceAsCoded ==
    /\ DiskSpaceCommon
    /\ (handler' = "ResourceServiceUpdate" /\ OnlyAdditional(rd)) =>
           \A s \in SentSizes :
               s = (IF PlanNotFound THEN 0 ELSE DefaultPlusAdditional)

====
